---- MODULE Spec2Model ----
(***************************************************************************)
(* Model of the rust-payments-engine ledger: the sequential engine         *)
(* (TransactionEngine over AccountManager and TransactionStore), the       *)
(* concurrent engine (AsyncTransactionEngine over the DashMap based        *)
(* AsyncAccountManager and AsyncTransactionStore) and the batch scheduler  *)
(* (AsyncProcessingStrategy driving BatchProcessor).                       *)
(*                                                                         *)
(* Decimal values are integers with a symmetric range of MaxDecimal:       *)
(* checked_add and checked_sub return None outside that range, as          *)
(* rust_decimal does outside Decimal::MIN .. Decimal::MAX.                 *)
(***************************************************************************)
EXTENDS Integers, Sequences, FiniteSets, TLC

\* ------------------------------------------------------------- bounds
\* Largest magnitude a Decimal holds (stands for Decimal::MAX).
MaxDecimal == 3
\* Client ids and transaction ids that occur in the input.
MaxClient == 2
MaxTx == 2
\* Largest amount a deposit or withdrawal record carries.
MaxAmount == 2
\* Records the source yields to the two engines called record by record.
MaxRecords == 6
\* Records the source yields to the two strategies, the largest batch_size and
\* the largest number of runtime worker threads (max_concurrent_batches).
MaxBatchRecords == 3
MaxBatchSize == 3
MaxWorkers == 2

Clients == 1..MaxClient
TxIds == 1..MaxTx

\* ------------------------------------------------------------- types
\* Option<T>: None, or Some(x).
None == <<>>
Some(x) == <<x>>

Deposit == "Deposit"
Withdrawal == "Withdrawal"
Dispute == "Dispute"
Resolve == "Resolve"
Chargeback == "Chargeback"

TransactionType == {Deposit, Withdrawal, Dispute, Resolve, Chargeback}

\* The amounts a record can carry: absent, negative (Decimal::from_str parses a
\* sign), or positive.
Amounts == {None} \cup {Some(a) : a \in (-1..MaxAmount) \ {0}}

\* TransactionRecord: what convert_csv_record hands to the engines, plus the
\* deposit/withdrawal records without amount that the engines' own callers pass.
TransactionRecord ==
    [tx_type : {Deposit, Withdrawal}, client : Clients, tx : TxIds, amount : Amounts]
    \cup [tx_type : {Dispute, Resolve, Chargeback}, client : Clients, tx : TxIds,
          amount : {None}]

Ok == "Ok"

Account_new(client) ==
    [client |-> client, available |-> 0, held |-> 0, total |-> 0, locked |-> FALSE]

StoredTransaction(client, amount, tx_type) ==
    [client |-> client, amount |-> amount, tx_type |-> tx_type, under_dispute |-> FALSE]

\* Decimal::checked_add / checked_sub.
InRange(x) == x >= -MaxDecimal /\ x <= MaxDecimal
checked_add(a, b) == IF InRange(a + b) THEN Some(a + b) ELSE None
checked_sub(a, b) == IF InRange(a - b) THEN Some(a - b) ELSE None

\* ------------------------------------------------------------- AccountManager
get_or_create_account(accounts, client) ==
    IF client \in DOMAIN accounts THEN accounts
    ELSE accounts @@ (client :> Account_new(client))

is_locked(accounts, client) ==
    client \in DOMAIN accounts /\ accounts[client].locked

AccountManager_deposit(accounts, client, amount) ==
    LET accs == get_or_create_account(accounts, client)
        account == accs[client]
        new_available == checked_add(account.available, amount)
        new_total == checked_add(account.total, amount)
    IN  IF new_available = None \/ new_total = None
        THEN [accounts |-> accs, result |-> "ArithmeticOverflow"]
        ELSE [accounts |-> [accs EXCEPT ![client].available = new_available[1],
                                        ![client].total = new_total[1]],
              result |-> Ok]

\* A withdraw that looks the account up and rejects without creating it.
withdraw_without_account(accounts, client, amount) ==
    IF client \notin DOMAIN accounts \/ accounts[client].available < amount
    THEN [accounts |-> accounts, result |-> "InsufficientFunds"]
    ELSE [accounts |-> [accounts EXCEPT ![client].available = @ - amount,
                                        ![client].total = @ - amount],
          result |-> Ok]

AccountManager_withdraw(accounts, client, amount) ==
    LET accs == get_or_create_account(accounts, client)
        account == accs[client]
        new_available == checked_sub(account.available, amount)
        new_total == checked_sub(account.total, amount)
    IN  IF account.available < amount
        THEN [accounts |-> accs, result |-> "InsufficientFunds"]
        ELSE IF new_available = None \/ new_total = None
        THEN [accounts |-> accs, result |-> "ArithmeticUnderflow"]
        ELSE [accounts |-> [accs EXCEPT ![client].available = new_available[1],
                                        ![client].total = new_total[1]],
              result |-> Ok]

hold_funds(accounts, client, amount) ==
    LET accs == get_or_create_account(accounts, client)
        account == accs[client]
        new_available == checked_sub(account.available, amount)
        new_held == checked_add(account.held, amount)
    IN  IF account.available < amount
        THEN [accounts |-> accs, result |-> "InsufficientAvailableFunds"]
        ELSE IF new_available = None
        THEN [accounts |-> accs, result |-> "ArithmeticUnderflow"]
        ELSE IF new_held = None
        THEN [accounts |-> accs, result |-> "ArithmeticOverflow"]
        ELSE [accounts |-> [accs EXCEPT ![client].available = new_available[1],
                                        ![client].held = new_held[1]],
              result |-> Ok]

release_funds(accounts, client, amount) ==
    LET accs == get_or_create_account(accounts, client)
        account == accs[client]
        new_held == checked_sub(account.held, amount)
        new_available == checked_add(account.available, amount)
    IN  IF account.held < amount
        THEN [accounts |-> accs, result |-> "InsufficientHeldFunds"]
        ELSE IF new_held = None
        THEN [accounts |-> accs, result |-> "ArithmeticUnderflow"]
        ELSE IF new_available = None
        THEN [accounts |-> accs, result |-> "ArithmeticOverflow"]
        ELSE [accounts |-> [accs EXCEPT ![client].held = new_held[1],
                                        ![client].available = new_available[1]],
              result |-> Ok]

AccountManager_chargeback(accounts, client, amount) ==
    LET accs == get_or_create_account(accounts, client)
        account == accs[client]
        new_held == checked_sub(account.held, amount)
        new_total == checked_sub(account.total, amount)
    IN  IF account.held < amount
        THEN [accounts |-> accs, result |-> "InsufficientHeldFunds"]
        ELSE IF new_held = None \/ new_total = None
        THEN [accounts |-> accs, result |-> "ArithmeticUnderflow"]
        ELSE [accounts |-> [accs EXCEPT ![client].held = new_held[1],
                                        ![client].total = new_total[1],
                                        ![client].locked = TRUE],
              result |-> Ok]

\* ------------------------------------------------------------- TransactionStore
\* store: entry(tx_id).or_insert(tx), the first occurrence wins.
TransactionStore_store(transactions, tx_id, tx) ==
    IF tx_id \in DOMAIN transactions THEN transactions
    ELSE transactions @@ (tx_id :> tx)

TransactionStore_get(transactions, tx_id) ==
    IF tx_id \in DOMAIN transactions THEN Some(transactions[tx_id]) ELSE None

mark_disputed(transactions, tx_id) ==
    IF tx_id \in DOMAIN transactions
    THEN [transactions |-> [transactions EXCEPT ![tx_id].under_dispute = TRUE],
          result |-> Ok]
    ELSE [transactions |-> transactions, result |-> "TransactionNotFound"]

\* A mark_resolved that finds the transaction and leaves its flag set.
mark_resolved_kept(transactions, tx_id) ==
    IF tx_id \in DOMAIN transactions
    THEN [transactions |-> transactions, result |-> Ok]
    ELSE [transactions |-> transactions, result |-> "TransactionNotFound"]

mark_resolved(transactions, tx_id) ==
    IF tx_id \in DOMAIN transactions
    THEN [transactions |-> [transactions EXCEPT ![tx_id].under_dispute = FALSE],
          result |-> Ok]
    ELSE [transactions |-> transactions, result |-> "TransactionNotFound"]

\* ------------------------------------------------------------- TransactionEngine
\* Every handler returns the engine's two maps and the Result of the call.
Engine(accounts, store, result) ==
    [accounts |-> accounts, store |-> store, result |-> result]

\* A process_deposit without the lookup of record.tx in the store.
process_deposit_unchecked(accounts, store, record) ==
    IF record.amount = None THEN Engine(accounts, store, "MissingAmount")
    ELSE LET d == AccountManager_deposit(accounts, record.client, record.amount[1])
         IN  IF d.result # Ok THEN Engine(d.accounts, store, d.result)
             ELSE Engine(d.accounts,
                         TransactionStore_store(store, record.tx,
                             StoredTransaction(record.client, record.amount[1], Deposit)),
                         Ok)

TransactionEngine_process_deposit(accounts, store, record) ==
    IF record.amount = None THEN Engine(accounts, store, "MissingAmount")
    ELSE IF TransactionStore_get(store, record.tx) # None
    THEN Engine(accounts, store, "DuplicateTransaction")
    ELSE LET amount == record.amount[1]
             d == AccountManager_deposit(accounts, record.client, amount)
         IN  IF d.result # Ok THEN Engine(d.accounts, store, d.result)
             ELSE Engine(d.accounts,
                         TransactionStore_store(store, record.tx,
                             StoredTransaction(record.client, amount, Deposit)),
                         Ok)

TransactionEngine_process_withdrawal(accounts, store, record) ==
    IF record.amount = None THEN Engine(accounts, store, "MissingAmount")
    ELSE IF TransactionStore_get(store, record.tx) # None
    THEN Engine(accounts, store, "DuplicateTransaction")
    ELSE LET amount == record.amount[1]
             w == AccountManager_withdraw(accounts, record.client, amount)
         IN  IF w.result # Ok THEN Engine(w.accounts, store, w.result)
             ELSE Engine(w.accounts,
                         TransactionStore_store(store, record.tx,
                             StoredTransaction(record.client, amount, Withdrawal)),
                         Ok)

\* A dispute that does not compare the record's client with the transaction's.
process_dispute_any_client(accounts, store, record) ==
    LET stored_tx == TransactionStore_get(store, record.tx)
    IN  IF stored_tx = None THEN Engine(accounts, store, "TransactionNotFound")
        ELSE IF stored_tx[1].under_dispute
        THEN Engine(accounts, store, "TransactionAlreadyDisputed")
        ELSE LET h == hold_funds(accounts, record.client, stored_tx[1].amount)
                 m == mark_disputed(store, record.tx)
             IN  IF h.result # Ok THEN Engine(h.accounts, store, h.result)
                 ELSE Engine(h.accounts, m.transactions, m.result)

TransactionEngine_process_dispute(accounts, store, record) ==
    LET stored_tx == TransactionStore_get(store, record.tx)
    IN  IF stored_tx = None THEN Engine(accounts, store, "TransactionNotFound")
        ELSE IF stored_tx[1].client # record.client
        THEN Engine(accounts, store, "ClientMismatch")
        ELSE IF stored_tx[1].under_dispute
        THEN Engine(accounts, store, "TransactionAlreadyDisputed")
        ELSE LET h == hold_funds(accounts, record.client, stored_tx[1].amount)
                 m == mark_disputed(store, record.tx)
             IN  IF h.result # Ok THEN Engine(h.accounts, store, h.result)
                 ELSE Engine(h.accounts, m.transactions, m.result)

\* A resolve that releases the amount its record carries, when it carries one.
process_resolve_carried(accounts, store, record) ==
    LET stored_tx == TransactionStore_get(store, record.tx)
    IN  IF stored_tx = None THEN Engine(accounts, store, "TransactionNotFound")
        ELSE IF stored_tx[1].client # record.client
        THEN Engine(accounts, store, "ClientMismatch")
        ELSE IF ~stored_tx[1].under_dispute
        THEN Engine(accounts, store, "TransactionNotDisputed")
        ELSE LET r == release_funds(accounts, record.client,
                                    IF record.amount = None THEN stored_tx[1].amount
                                    ELSE record.amount[1])
                 m == mark_resolved(store, record.tx)
             IN  IF r.result # Ok THEN Engine(r.accounts, store, r.result)
                 ELSE Engine(r.accounts, m.transactions, m.result)

TransactionEngine_process_resolve(accounts, store, record) ==
    LET stored_tx == TransactionStore_get(store, record.tx)
    IN  IF stored_tx = None THEN Engine(accounts, store, "TransactionNotFound")
        ELSE IF stored_tx[1].client # record.client
        THEN Engine(accounts, store, "ClientMismatch")
        ELSE IF ~stored_tx[1].under_dispute
        THEN Engine(accounts, store, "TransactionNotDisputed")
        ELSE LET r == release_funds(accounts, record.client, stored_tx[1].amount)
                 m == mark_resolved(store, record.tx)
             IN  IF r.result # Ok THEN Engine(r.accounts, store, r.result)
                 ELSE Engine(r.accounts, m.transactions, m.result)

TransactionEngine_process_chargeback(accounts, store, record) ==
    LET stored_tx == TransactionStore_get(store, record.tx)
    IN  IF stored_tx = None THEN Engine(accounts, store, "TransactionNotFound")
        ELSE IF stored_tx[1].client # record.client
        THEN Engine(accounts, store, "ClientMismatch")
        ELSE IF ~stored_tx[1].under_dispute
        THEN Engine(accounts, store, "TransactionNotDisputed")
        ELSE LET c == AccountManager_chargeback(accounts, record.client,
                                                stored_tx[1].amount)
             IN  Engine(c.accounts, store, c.result)

\* A process that dispatches on the type without reading the lock flag.
process_ungated(accounts, store, record) ==
    CASE record.tx_type = Deposit ->
             TransactionEngine_process_deposit(accounts, store, record)
      [] record.tx_type = Withdrawal ->
             TransactionEngine_process_withdrawal(accounts, store, record)
      [] record.tx_type = Dispute ->
             TransactionEngine_process_dispute(accounts, store, record)
      [] record.tx_type = Resolve ->
             TransactionEngine_process_resolve(accounts, store, record)
      [] record.tx_type = Chargeback ->
             TransactionEngine_process_chargeback(accounts, store, record)

\* process: the lock check comes first, for every transaction type.
TransactionEngine_process(accounts, store, record) ==
    IF is_locked(accounts, record.client) THEN Engine(accounts, store, "AccountLocked")
    ELSE CASE record.tx_type = Deposit ->
                  TransactionEngine_process_deposit(accounts, store, record)
           [] record.tx_type = Withdrawal ->
                  TransactionEngine_process_withdrawal(accounts, store, record)
           [] record.tx_type = Dispute ->
                  TransactionEngine_process_dispute(accounts, store, record)
           [] record.tx_type = Resolve ->
                  TransactionEngine_process_resolve(accounts, store, record)
           [] record.tx_type = Chargeback ->
                  TransactionEngine_process_chargeback(accounts, store, record)

\* ------------------------------------------------------------- AsyncAccountManager
\* A closure's outcome: the account as the closure left it (it mutates the entry
\* in place, also when it returns Err) and its Result.
Closure(account, result) == [account |-> account, result |-> result]

AsyncAccountManager_is_locked(accounts, client_id) ==
    IF client_id \in DOMAIN accounts THEN accounts[client_id].locked ELSE FALSE

\* ------------------------------------------------------------- AsyncTransactionStore
AsyncTransactionStore_store(transactions, tx_id, transaction) ==
    IF tx_id \in DOMAIN transactions THEN transactions
    ELSE transactions @@ (tx_id :> transaction)

AsyncTransactionStore_get(transactions, tx_id) ==
    IF tx_id \in DOMAIN transactions THEN Some(transactions[tx_id]) ELSE None

\* ------------------------------------------------------------- AsyncTransactionEngine
\* The closures the handlers pass to AsyncAccountManager::update. A closure value
\* is its code and the amount it captured; call_closure applies it to the entry.
deposit_closure(account, amount) ==
    LET a == checked_add(account.available, amount)
    IN  IF a = None THEN Closure(account, "ArithmeticOverflow")
        ELSE LET acc1 == [account EXCEPT !.available = a[1]]
                 t == checked_add(acc1.total, amount)
             IN  IF t = None THEN Closure(acc1, "ArithmeticOverflow")
                 ELSE Closure([acc1 EXCEPT !.total = t[1]], Ok)

\* A withdrawal closure that debits without looking at the available funds.
withdrawal_unchecked(account, amount) ==
    LET a == checked_sub(account.available, amount)
    IN  IF a = None THEN Closure(account, "ArithmeticUnderflow")
        ELSE LET acc1 == [account EXCEPT !.available = a[1]]
                 t == checked_sub(acc1.total, amount)
             IN  IF t = None THEN Closure(acc1, "ArithmeticUnderflow")
                 ELSE Closure([acc1 EXCEPT !.total = t[1]], Ok)

withdrawal_closure(account, amount) ==
    IF account.available < amount THEN Closure(account, "InsufficientFunds")
    ELSE LET a == checked_sub(account.available, amount)
         IN  IF a = None THEN Closure(account, "ArithmeticUnderflow")
             ELSE LET acc1 == [account EXCEPT !.available = a[1]]
                      t == checked_sub(acc1.total, amount)
                  IN  IF t = None THEN Closure(acc1, "ArithmeticUnderflow")
                      ELSE Closure([acc1 EXCEPT !.total = t[1]], Ok)

dispute_closure(account, amount) ==
    LET a == checked_sub(account.available, amount)
    IN  IF a = None THEN Closure(account, "ArithmeticUnderflow")
        ELSE LET acc1 == [account EXCEPT !.available = a[1]]
                 h == checked_add(acc1.held, amount)
             IN  IF h = None THEN Closure(acc1, "ArithmeticOverflow")
                 ELSE Closure([acc1 EXCEPT !.held = h[1]], Ok)

\* A resolve closure that also clears the lock flag.
resolve_unlocks(account, amount) ==
    LET h == checked_sub(account.held, amount)
    IN  IF h = None THEN Closure(account, "ArithmeticUnderflow")
        ELSE LET acc1 == [account EXCEPT !.held = h[1]]
                 a == checked_add(acc1.available, amount)
             IN  IF a = None THEN Closure(acc1, "ArithmeticOverflow")
                 ELSE Closure([acc1 EXCEPT !.available = a[1], !.locked = FALSE], Ok)

resolve_closure(account, amount) ==
    LET h == checked_sub(account.held, amount)
    IN  IF h = None THEN Closure(account, "ArithmeticUnderflow")
        ELSE LET acc1 == [account EXCEPT !.held = h[1]]
                 a == checked_add(acc1.available, amount)
             IN  IF a = None THEN Closure(acc1, "ArithmeticOverflow")
                 ELSE Closure([acc1 EXCEPT !.available = a[1]], Ok)

\* A chargeback closure that removes the funds and leaves the account unlocked.
chargeback_unlocked(account, amount) ==
    LET h == checked_sub(account.held, amount)
        t == checked_sub(account.total, amount)
    IN  IF h = None \/ t = None THEN Closure(account, "ArithmeticUnderflow")
        ELSE Closure([account EXCEPT !.held = h[1], !.total = t[1]], Ok)

chargeback_closure(account, amount) ==
    LET h == checked_sub(account.held, amount)
    IN  IF h = None THEN Closure(account, "ArithmeticUnderflow")
        ELSE LET acc1 == [account EXCEPT !.held = h[1]]
                 t == checked_sub(acc1.total, amount)
             IN  IF t = None THEN Closure(acc1, "ArithmeticUnderflow")
                 ELSE Closure([acc1 EXCEPT !.total = t[1], !.locked = TRUE], Ok)

call_closure(f, account) ==
    CASE f.code = Deposit -> deposit_closure(account, f.amount)
      [] f.code = Withdrawal -> withdrawal_closure(account, f.amount)
      [] f.code = Dispute -> dispute_closure(account, f.amount)
      [] f.code = Resolve -> resolve_closure(account, f.amount)
      [] f.code = Chargeback -> chargeback_closure(account, f.amount)

\* AsyncAccountManager::update: entry(client_id).or_insert_with(Account::new),
\* then f on the entry. Nothing is restored when f returns Err.
AsyncAccountManager_update(accounts, client_id, f) ==
    LET accs == get_or_create_account(accounts, client_id)
        r == call_closure(f, accs[client_id])
    IN  [accounts |-> [accs EXCEPT ![client_id] = r.account], result |-> r.result]

\* The closures the handlers pass to AsyncTransactionStore::update.
TxClosure(tx, result) == [tx |-> tx, result |-> result]

mark_disputed_closure(tx) ==
    IF tx.under_dispute THEN TxClosure(tx, "TransactionAlreadyDisputed")
    ELSE TxClosure([tx EXCEPT !.under_dispute = TRUE], Ok)

mark_resolved_closure(tx) == TxClosure([tx EXCEPT !.under_dispute = FALSE], Ok)

call_tx_closure(f, tx) ==
    IF f = Dispute THEN mark_disputed_closure(tx) ELSE mark_resolved_closure(tx)

\* AsyncTransactionStore::update: get_mut(tx_id), then f on the entry;
\* TransactionNotFound without one.
AsyncTransactionStore_update(transactions, tx_id, f) ==
    IF tx_id \in DOMAIN transactions
    THEN LET r == call_tx_closure(f, transactions[tx_id])
         IN  [transactions |-> [transactions EXCEPT ![tx_id] = r.tx],
              result |-> r.result]
    ELSE [transactions |-> transactions, result |-> "TransactionNotFound"]

\* One call of process_transaction is a sequence of DashMap operations, each
\* atomic on its entry. A Frame is the call's position and locals: the record, the
\* clone of the stored transaction that get returned, and the Result once the call
\* has returned (pc = "done").
Frame(pc, record, stored_tx, result) ==
    [pc |-> pc, record |-> record, stored_tx |-> stored_tx, result |-> result]

Returned(frame, result) == Frame("done", frame.record, frame.stored_tx, result)
Goto(frame, pc) == Frame(pc, frame.record, frame.stored_tx, frame.result)

\* The engine's two maps and the calling thread's frame after one operation.
AStep(accounts, store, frame) == [accounts |-> accounts, store |-> store, frame |-> frame]

\* process_transaction's entry: deposits and withdrawals first read the lock flag,
\* the other three types go to their handler.
process_transaction(record) ==
    Frame(IF record.tx_type \in {Deposit, Withdrawal} THEN "is_locked" ELSE "get",
          record, None, None)

\* account_manager.is_locked, then the handler's amount check.
step_is_locked(accounts, store, frame) ==
    IF AsyncAccountManager_is_locked(accounts, frame.record.client)
    THEN AStep(accounts, store, Returned(frame, "AccountLocked"))
    ELSE IF frame.record.amount = None
    THEN AStep(accounts, store, Returned(frame, "MissingAmount"))
    ELSE AStep(accounts, store, Goto(frame, "get"))

\* transaction_store.get, then the checks each handler makes on the clone.
step_get(accounts, store, frame) ==
    LET record == frame.record
        got == AsyncTransactionStore_get(store, record.tx)
        kept == Frame(frame.pc, record, got, frame.result)
    IN  IF record.tx_type \in {Deposit, Withdrawal}
        THEN IF got # None
             THEN AStep(accounts, store, Returned(frame, "DuplicateTransaction"))
             ELSE AStep(accounts, store,
                        Goto(frame, IF record.tx_type = Deposit THEN "store"
                                    ELSE "account_update"))
        ELSE IF got = None
        THEN AStep(accounts, store, Returned(frame, "TransactionNotFound"))
        ELSE IF got[1].client # record.client
        THEN AStep(accounts, store, Returned(frame, "ClientMismatch"))
        ELSE IF record.tx_type = Dispute
        THEN AStep(accounts, store, Goto(kept, "tx_update"))
        ELSE IF ~got[1].under_dispute
        THEN AStep(accounts, store, Returned(frame, "TransactionNotDisputed"))
        ELSE AStep(accounts, store,
                   Goto(kept, IF record.tx_type = Resolve THEN "tx_update"
                              ELSE "account_update"))

\* transaction_store.store: before the balance update in process_deposit, after
\* it in process_withdrawal.
step_store(accounts, store, frame) ==
    LET record == frame.record
        stored == AsyncTransactionStore_store(store, record.tx,
                      StoredTransaction(record.client, record.amount[1], record.tx_type))
    IN  IF record.tx_type = Deposit
        THEN AStep(accounts, stored, Goto(frame, "account_update"))
        ELSE AStep(accounts, stored, Returned(frame, Ok))

\* transaction_store.update in process_dispute and process_resolve.
step_tx_update(accounts, store, frame) ==
    LET record == frame.record
        u == AsyncTransactionStore_update(store, record.tx, record.tx_type)
    IN  IF u.result # Ok THEN AStep(accounts, u.transactions, Returned(frame, u.result))
        ELSE AStep(accounts, u.transactions, Goto(frame, "account_update"))

\* account_manager.update with the handler's closure.
step_account_update(accounts, store, frame) ==
    LET record == frame.record
        amount == IF record.tx_type \in {Deposit, Withdrawal}
                  THEN record.amount[1] ELSE frame.stored_tx[1].amount
        u == AsyncAccountManager_update(accounts, record.client,
                                        [code |-> record.tx_type, amount |-> amount])
    IN  IF record.tx_type = Withdrawal /\ u.result = Ok
        THEN AStep(u.accounts, store, Goto(frame, "store"))
        ELSE AStep(u.accounts, store, Returned(frame, u.result))

\* The next DashMap operation of a call that has not returned.
step(accounts, store, frame) ==
    CASE frame.pc = "is_locked" -> step_is_locked(accounts, store, frame)
      [] frame.pc = "get" -> step_get(accounts, store, frame)
      [] frame.pc = "store" -> step_store(accounts, store, frame)
      [] frame.pc = "tx_update" -> step_tx_update(accounts, store, frame)
      [] frame.pc = "account_update" -> step_account_update(accounts, store, frame)

\* A call that no other thread interleaves with: its operations back to back.
RECURSIVE run_to_return(_)
run_to_return(s) ==
    IF s.frame.pc = "done" THEN s
    ELSE run_to_return(step(s.accounts, s.store, s.frame))

returned_engine(s) == Engine(s.accounts, s.store, s.frame.result)

AsyncTransactionEngine_process_transaction(accounts, store, record) ==
    returned_engine(run_to_return(AStep(accounts, store, process_transaction(record))))

\* ------------------------------------------------------------- BatchProcessor
\* The records of a batch carry their position in the source (seq), which the
\* program does not store: it names a record in the properties.
Sourced(seq, record) == [seq |-> seq, record |-> record]

\* A partition keyed by transaction id instead of client id.
partition_by_tx(batch) ==
    [t \in {batch[i].record.tx : i \in DOMAIN batch} |->
        SelectSeq(batch, LAMBDA r : r.record.tx = t)]

\* A partition loop that puts each record in front of its client's records.
RECURSIVE partition_in_front(_, _)
partition_in_front(client_batches, rest) ==
    IF rest = <<>> THEN client_batches
    ELSE partition_in_front(
             [c \in DOMAIN client_batches \cup {Head(rest).record.client} |->
                 IF c # Head(rest).record.client THEN client_batches[c]
                 ELSE IF c \in DOMAIN client_batches
                      THEN <<Head(rest)>> \o client_batches[c]
                      ELSE <<Head(rest)>>],
             Tail(rest))

\* partition_by_client's loop: entry(record.client).or_default().push(record)
\* for each record of the batch in turn.
RECURSIVE partition_loop(_, _)
partition_loop(client_batches, rest) ==
    IF rest = <<>> THEN client_batches
    ELSE partition_loop(
             [c \in DOMAIN client_batches \cup {Head(rest).record.client} |->
                 IF c # Head(rest).record.client THEN client_batches[c]
                 ELSE IF c \in DOMAIN client_batches
                      THEN Append(client_batches[c], Head(rest))
                      ELSE <<Head(rest)>>],
             Tail(rest))

\* partition_by_client: a HashMap from each client of the batch to its records,
\* pushed in batch order.
partition_by_client(batch) == partition_loop(<<>>, batch)

\* A spawned task: process_client_transactions over one partition. results grows
\* by one ProcessingResult per returned call; call is the frame of the call of
\* process_transaction in progress, if any; guards are the DashMap guards the
\* task holds.
Task(chunk, transactions) ==
    [chunk |-> chunk, transactions |-> transactions, results |-> <<>>,
     call |-> None, guards |-> <<>>, status |-> "Spawned"]

RECURSIVE SortedSeq(_)
SortedSeq(S) ==
    IF S = {} THEN <<>>
    ELSE LET m == CHOOSE x \in S : \A y \in S : x <= y
         IN  <<m>> \o SortedSeq(S \ {m})

\* process_batch up to its join loop: one task per partition.
spawn_tasks(chunk, batch) ==
    LET client_batches == partition_by_client(batch)
        keys == SortedSeq(DOMAIN client_batches)
    IN  [k \in DOMAIN keys |-> Task(chunk, client_batches[keys[k]])]

\* The record a task is at.
TaskPos(task) == Len(task.results) + 1

\* The frame a running task continues with: of the call in progress, or of the
\* call for its next record.
task_frame(task) ==
    IF task.call = None THEN process_transaction(task.transactions[TaskPos(task)].record)
    ELSE task.call[1]

\* A task whose loop ends at the first call that returns an error.
task_until_error(task, s) ==
    [accounts |-> s.accounts, store |-> s.store, frame |-> s.frame,
     task |-> [task EXCEPT
                 !.call = IF s.frame.pc = "done" THEN None ELSE Some(s.frame),
                 !.results = IF s.frame.pc = "done"
                             THEN Append(task.results, s.frame.result)
                             ELSE task.results,
                 !.status = IF s.frame.pc = "done"
                               /\ (Len(task.results) + 1 = Len(task.transactions)
                                   \/ s.frame.result # Ok)
                            THEN "Finished" ELSE "Running"]]

\* The task after its call has made the operation s: a call that returns pushes
\* its result, and the task finishes after its last record.
task_after(task, s) ==
    [accounts |-> s.accounts, store |-> s.store, frame |-> s.frame,
     task |-> [task EXCEPT
                 !.call = IF s.frame.pc = "done" THEN None ELSE Some(s.frame),
                 !.results = IF s.frame.pc = "done"
                             THEN Append(task.results, s.frame.result)
                             ELSE task.results,
                 !.status = IF s.frame.pc = "done"
                               /\ Len(task.results) + 1 = Len(task.transactions)
                            THEN "Finished" ELSE "Running"]]

\* One DashMap operation of a running task.
task_step(accounts, store, task) ==
    task_after(task, step(accounts, store, task_frame(task)))

\* The batch as one thread would apply it, partition after partition in ascending
\* client order: the schedule of a runtime with one worker thread whose partition
\* map iterates in key order.
RECURSIVE apply_in_order(_, _)
apply_in_order(e, transactions) ==
    IF transactions = <<>> THEN e
    ELSE apply_in_order(
             AsyncTransactionEngine_process_transaction(
                 e.accounts, e.store, Head(transactions).record),
             Tail(transactions))

RECURSIVE run_tasks_in_order(_, _)
run_tasks_in_order(e, ts) ==
    IF ts = <<>> THEN e
    ELSE run_tasks_in_order(apply_in_order(e, Head(ts).transactions), Tail(ts))

\* ------------------------------------------------------------- csv_format
\* The values of a map in the order its iterator yields the keys.
values(accounts, order) == [i \in DOMAIN order |-> accounts[order[i]]]

\* A sort_by_key that leaves the accounts in the order it is given them.
keep_order(accs) == accs

\* sort_by_key(|account| account.client): a stable sort, ascending.
RECURSIVE insert_by_key(_, _)
insert_by_key(sorted, account) ==
    IF sorted = <<>> THEN <<account>>
    ELSE IF account.client < Head(sorted).client THEN <<account>> \o sorted
    ELSE <<Head(sorted)>> \o insert_by_key(Tail(sorted), account)

RECURSIVE sort_loop(_, _)
sort_loop(sorted, rest) ==
    IF rest = <<>> THEN sorted
    ELSE sort_loop(insert_by_key(sorted, Head(rest)), Tail(rest))

sort_by_key(accs) == sort_loop(<<>>, accs)

\* AccountManager::get_all_accounts: the HashMap's values, sorted by client.
AccountManager_get_all_accounts(accounts, order) == sort_by_key(values(accounts, order))

\* AsyncAccountManager::get_all_accounts: the DashMap's values as iterated.
AsyncAccountManager_get_all_accounts(accounts, order) == values(accounts, order)

\* A row of the output: the client and the locked flag as to_string gives them,
\* the three balances.
Row(account) ==
    [client |-> account.client, available |-> account.available, held |-> account.held,
     total |-> account.total, locked |-> IF account.locked THEN "true" ELSE "false"]

\* write_accounts_csv: the rows of the accounts after they are sorted by client
\* (the header row is left out).
write_rows(sorted_accounts) == [i \in DOMAIN sorted_accounts |-> Row(sorted_accounts[i])]

write_accounts_csv(accs) == write_rows(sort_by_key(accs))

\* ------------------------------------------------------------- state
VARIABLES
    s_accounts,   \* TransactionEngine.account_manager.accounts
    s_store,      \* TransactionEngine.transaction_store.transactions
    a_accounts,   \* AsyncAccountManager.accounts
    a_store,      \* AsyncTransactionStore.transactions
    s_last,       \* the record TransactionEngine::process was last called with, and its Result
    a_last,       \* the same for AsyncTransactionEngine::process_transaction
    s_charged,    \* the transaction ids whose chargeback TransactionEngine returned Ok for
    a_charged,    \* the same for AsyncTransactionEngine
    remaining,    \* records the source has not yielded yet
    config,       \* BatchConfig: batch_size, max_concurrent_batches
    sched,        \* where AsyncProcessingStrategy::process is: read_batch, join, done
    batch,        \* the Vec read_batch is filling
    chunk,        \* how many batches process_batch was called with
    tasks,        \* the tasks spawned and not yet joined
    results,      \* what process_batch last returned
    o_accounts,   \* the concurrent engine's accounts had every batch run in order
    o_store,      \* and its store
    shards,       \* the number of shards of each DashMap
    panicked,     \* the clients whose task process_batch last found panicked
    output        \* the rows write_accounts_csv wrote for each strategy

vars == <<s_accounts, s_store, a_accounts, a_store, s_last, a_last,
          s_charged, a_charged, remaining,
          config, shards, sched, batch, chunk, tasks, results, o_accounts, o_store, panicked,
          output>>

engine_vars == <<s_accounts, s_store, a_accounts, a_store, s_last, a_last,
                 s_charged, a_charged>>
batch_vars == <<config, shards, sched, batch, chunk, tasks, results, o_accounts, o_store,
                panicked, output>>

EmptyMap == <<>>
NoCall == [record |-> None, result |-> None]
Call(record, result) == [record |-> Some(record), result |-> result]
\* The charged-back ids after a call: a chargeback that returned Ok adds its id.
Charged(charged, record, result) ==
    IF record.tx_type = Chargeback /\ result = Ok THEN charged \cup {record.tx}
    ELSE charged

\* What the two strategies have written: nothing until their loops end.
Output(sync, async) == [sync |-> sync, async |-> async]
NoOutput == Output(None, None)

BatchConfig(batch_size, max_concurrent_batches) ==
    [batch_size |-> batch_size, max_concurrent_batches |-> max_concurrent_batches]

InitEngines ==
    /\ s_accounts = EmptyMap
    /\ s_store = EmptyMap
    /\ a_accounts = EmptyMap
    /\ a_store = EmptyMap
    /\ s_last = NoCall
    /\ a_last = NoCall
    /\ s_charged = {}
    /\ a_charged = {}
    /\ sched = "read_batch"
    /\ batch = <<>>
    /\ chunk = 0
    /\ tasks = <<>>
    /\ results = <<>>
    /\ o_accounts = EmptyMap
    /\ o_store = EmptyMap
    /\ panicked = {}
    /\ output = NoOutput

\* ------------------------------------------------------------- the two engines, call by call
Init ==
    /\ InitEngines
    /\ remaining = MaxRecords
    /\ config = BatchConfig(1, 1)
    /\ shards = 1

\* Both engines are handed the same record: SyncProcessingStrategy's loop body, and
\* a call of process_transaction from a single thread.
Processed(record, s, a) ==
    /\ s_accounts' = s.accounts
    /\ s_store' = s.store
    /\ s_last' = Call(record, s.result)
    /\ s_charged' = Charged(s_charged, record, s.result)
    /\ a_accounts' = a.accounts
    /\ a_store' = a.store
    /\ a_last' = Call(record, a.result)
    /\ a_charged' = Charged(a_charged, record, a.result)

Process(record) ==
    /\ remaining > 0
    /\ remaining' = remaining - 1
    /\ Processed(record,
                 TransactionEngine_process(s_accounts, s_store, record),
                 AsyncTransactionEngine_process_transaction(a_accounts, a_store, record))
    /\ UNCHANGED batch_vars

ProcessRecord == \E record \in TransactionRecord : Process(record)

Next == ProcessRecord

Spec == Init /\ [][Next]_vars

\* ------------------------------------------------------------- records that carry an ignored amount
\* Longest source of the engines when disputes carry amounts.
MaxCarriedRecords == 4

\* convert_csv_record leaves the amount of a dispute, resolve or chargeback row
\* in the record: the rows of these kinds that carry one.
CarriedRecord ==
    [tx_type : {Dispute, Resolve, Chargeback}, client : Clients, tx : TxIds,
     amount : {Some(a) : a \in 1..MaxAmount}]

InitCarried ==
    /\ InitEngines
    /\ remaining = MaxCarriedRecords
    /\ config = BatchConfig(1, 1)
    /\ shards = 1

ProcessCarried == \E record \in CarriedRecord : Process(record)

NextCarried == ProcessRecord \/ ProcessCarried

SpecCarried == InitCarried /\ [][NextCarried]_vars

\* ------------------------------------------------------------- the two strategies on one source
\* The records of the source both strategies read.
BatchRecord ==
    [tx_type : {Deposit, Withdrawal}, client : Clients, tx : TxIds,
     amount : {Some(MaxAmount)}]
    \cup [tx_type : {Dispute, Resolve, Chargeback}, client : Clients, tx : TxIds,
          amount : {None}]

InitBatch ==
    /\ InitEngines
    /\ remaining \in 0..MaxBatchRecords
    /\ config \in [batch_size : 1..MaxBatchSize, max_concurrent_batches : 1..MaxWorkers]
    /\ shards = 1

SyncProcessed(record, s) ==
    /\ s_accounts' = s.accounts
    /\ s_store' = s.store
    /\ s_last' = Call(record, s.result)
    /\ s_charged' = Charged(s_charged, record, s.result)

\* read_batch's loop body: the next record of the source goes into the batch. The
\* sequential strategy reads the same source and applies the record at once.
ReadRecord ==
    /\ sched = "read_batch"
    /\ Len(batch) < config.batch_size
    /\ remaining > 0
    /\ \E record \in BatchRecord :
          /\ batch' = Append(batch, Sourced(MaxBatchRecords - remaining + 1, record))
          /\ SyncProcessed(record, TransactionEngine_process(s_accounts, s_store, record))
    /\ remaining' = remaining - 1
    /\ UNCHANGED <<a_accounts, a_store, a_last, a_charged, config, shards, sched, chunk, tasks,
                   results,
                   o_accounts, o_store, panicked, output>>

InOrder(o) ==
    /\ o_accounts' = o.accounts
    /\ o_store' = o.store

Spawned(spawned) ==
    /\ tasks' = tasks \o spawned
    /\ InOrder(run_tasks_in_order(Engine(o_accounts, o_store, Ok), spawned))

\* read_batch returns (the batch is full or the source is at its end) with a
\* non-empty batch, and the loop hands it to process_batch.
HandOver ==
    /\ sched = "read_batch"
    /\ Len(batch) = config.batch_size \/ remaining = 0
    /\ batch # <<>>
    /\ chunk' = chunk + 1
    /\ batch' = <<>>
    /\ sched' = "join"

\* process_batch partitions the batch it is handed and spawns the tasks.
ProcessBatch ==
    /\ HandOver
    /\ Spawned(spawn_tasks(chunk + 1, batch))
    /\ UNCHANGED <<engine_vars, remaining, config, shards, results, panicked, output>>

\* A runtime whose worker threads stay taken by every task spawned.
running_or_spawned == DOMAIN tasks

\* A runtime worker thread takes a spawned task: at most max_concurrent_batches
\* tasks run at a time.
Running == {k \in DOMAIN tasks : tasks[k].status = "Running"}

TaskStart(k) ==
    /\ tasks[k].status = "Spawned"
    /\ Cardinality(Running) < config.max_concurrent_batches
    /\ tasks' = [tasks EXCEPT ![k].status = "Running"]
    /\ UNCHANGED <<engine_vars, remaining, config, shards, sched, batch, chunk, results,
                   o_accounts, o_store, panicked, output>>

Stepped(k, s) ==
    /\ a_accounts' = s.accounts
    /\ a_store' = s.store
    /\ tasks' = [tasks EXCEPT ![k] = s.task]
    /\ a_last' = IF s.frame.pc = "done" THEN Call(s.frame.record, s.frame.result)
                 ELSE a_last
    /\ a_charged' = IF s.frame.pc = "done"
                    THEN Charged(a_charged, s.frame.record, s.frame.result)
                    ELSE a_charged

\* A running task performs its next DashMap operation.
TaskStep(k) ==
    /\ tasks[k].status = "Running"
    /\ Stepped(k, task_step(a_accounts, a_store, tasks[k]))
    /\ UNCHANGED <<s_accounts, s_store, s_last, s_charged, remaining, config, shards, sched, batch,
                   chunk,
                   results, o_accounts, o_store, panicked, output>>

\* A join loop that awaits the first handle only.
join_first(ts) == DOMAIN ts \cap {1}

\* The tasks a join loop that awaits every handle waits for.
join_set(ts) == DOMAIN ts

\* A join loop whose await has an answer only for a task that returned.
joinable_on_return(task) == task.status = "Finished"

\* A handle the join loop's await has an answer for: Ok(client_results) of a task
\* that returned, or Err of a task that panicked.
Joinable(task) == task.status \in {"Finished", "Panicked"}

\* process_batch's join loop: it awaits every task, extends the results by those
\* of each task that returned and logs each task that panicked; the partition
\* map's iteration order is the order of the results.
Orders(S) == {f \in [1..Cardinality(S) -> S] : \A x \in S : \E i \in DOMAIN f : f[i] = x}

RECURSIVE collect(_, _)
collect(ts, order) ==
    IF order = <<>> THEN <<>>
    ELSE LET t == ts[Head(order)]
         IN  (IF t.status = "Panicked" THEN <<>>
              ELSE [i \in DOMAIN t.results |->
                       [record |-> t.transactions[i].record, result |-> t.results[i]]])
             \o collect(ts, Tail(order))

JoinAll ==
    /\ sched = "join"
    /\ \A k \in join_set(tasks) : Joinable(tasks[k])
    /\ \E order \in Orders(join_set(tasks)) : results' = collect(tasks, order)
    /\ panicked' = {tasks[k].transactions[1].record.client :
                        k \in {j \in join_set(tasks) : tasks[j].status = "Panicked"}}
    /\ tasks' = SelectSeq(tasks, LAMBDA t : ~Joinable(t))
    /\ sched' = "read_batch"
    /\ UNCHANGED <<engine_vars, remaining, config, shards, batch, chunk, o_accounts, o_store,
                   output>>

\* read_batch returns an empty batch: the loop breaks and the accounts are taken.
Finish ==
    /\ sched = "read_batch"
    /\ batch = <<>>
    /\ remaining = 0
    /\ sched' = "done"
    /\ \E s_order \in Orders(DOMAIN s_accounts), a_order \in Orders(DOMAIN a_accounts) :
          output' = Output(
              write_accounts_csv(AccountManager_get_all_accounts(s_accounts, s_order)),
              write_accounts_csv(AsyncAccountManager_get_all_accounts(a_accounts, a_order)))
    /\ UNCHANGED <<engine_vars, remaining, config, shards, batch, chunk, tasks, results,
                   o_accounts, o_store, panicked>>

StartSomeTask == \E k \in DOMAIN tasks : TaskStart(k)
StepSomeTask == \E k \in DOMAIN tasks : TaskStep(k)

NextBatch == ReadRecord \/ ProcessBatch \/ StartSomeTask \/ StepSomeTask \/ JoinAll \/ Finish

SpecBatch == InitBatch /\ [][NextBatch]_vars

\* The runtime schedules fairly: block_on drives the scheduler's loop and every
\* worker thread keeps polling the task it runs, so a step that stays possible
\* is taken. The scheduler's hand-over of a batch is the step ProcessBatch.
MaxLiveRecords == 2

InitLive ==
    /\ InitEngines
    /\ remaining \in 0..MaxLiveRecords
    /\ config \in [batch_size : 1..MaxBatchSize, max_concurrent_batches : 1..MaxWorkers]
    /\ shards = 1

LiveBatch ==
    /\ InitLive
    /\ [][NextBatch]_vars
    /\ WF_vars(ReadRecord) /\ WF_sched(HandOver) /\ WF_vars(JoinAll) /\ WF_vars(Finish)
    /\ WF_vars(StartSomeTask) /\ WF_vars(StepSomeTask)

\* ------------------------------------------------------------- the strategies with failing workers
\* The task panics: its future is dropped with the call in progress and the
\* results it has pushed, and its handle will answer Err. What the task has
\* written to the two maps stays.
TaskPanic(k) ==
    /\ tasks[k].status = "Running"
    /\ tasks' = [tasks EXCEPT ![k].status = "Panicked", ![k].call = None,
                              ![k].guards = <<>>]
    /\ UNCHANGED <<engine_vars, remaining, config, shards, sched, batch, chunk, results,
                   o_accounts, o_store, panicked, output>>

PanicSomeTask == \E k \in DOMAIN tasks : TaskPanic(k)

NextPanic == NextBatch \/ PanicSomeTask

SpecPanic == InitBatch /\ [][NextPanic]_vars

\* ------------------------------------------------------------- the strategies, guard by guard
\* A DashMap operation locks the shard of its key: get takes the shard's read
\* lock, entry and get_mut its write lock, and the guard lives until the
\* operation (with its closure) has returned.
MaxShards == 2

Guard(map, shard, write) == [map |-> map, shard |-> shard, write |-> write]

shard_of(key) == key % shards

\* Operations that keep the guard of the handler's previous operation while
\* they take their own: the balance update inside the store's guard, the store
\* inside the balance update's guard.
guards_nested(frame) ==
    CASE frame.pc = "account_update" ->
             <<Guard("transactions", shard_of(frame.record.tx), TRUE),
               Guard("accounts", shard_of(frame.record.client), TRUE)>>
      [] frame.pc = "store" ->
             <<Guard("accounts", shard_of(frame.record.client), TRUE),
               Guard("transactions", shard_of(frame.record.tx), TRUE)>>
      [] frame.pc = "is_locked" ->
             <<Guard("accounts", shard_of(frame.record.client), FALSE)>>
      [] OTHER -> <<Guard("transactions", shard_of(frame.record.tx), frame.pc # "get")>>

\* The guards the operation at frame.pc takes, in the order it takes them.
guards_of(frame) ==
    CASE frame.pc = "is_locked" ->
             <<Guard("accounts", shard_of(frame.record.client), FALSE)>>
      [] frame.pc = "get" ->
             <<Guard("transactions", shard_of(frame.record.tx), FALSE)>>
      [] frame.pc = "store" ->
             <<Guard("transactions", shard_of(frame.record.tx), TRUE)>>
      [] frame.pc = "tx_update" ->
             <<Guard("transactions", shard_of(frame.record.tx), TRUE)>>
      [] frame.pc = "account_update" ->
             <<Guard("accounts", shard_of(frame.record.client), TRUE)>>

\* Two guards of one shard exclude each other unless both are read guards.
Conflicts(g, h) == g.map = h.map /\ g.shard = h.shard /\ (g.write \/ h.write)

\* The guard task k takes next is free: no other task holds one it conflicts with.
Free(g, k) ==
    \A j \in DOMAIN tasks \ {k} :
        \A i \in DOMAIN tasks[j].guards : ~Conflicts(g, tasks[j].guards[i])

\* The guards a running task still has to take for its next operation.
Wanted(task) == guards_of(task_frame(task))

InitLocks ==
    /\ InitEngines
    /\ remaining \in 0..MaxBatchRecords
    /\ config \in [batch_size : 1..MaxBatchSize, max_concurrent_batches : 1..MaxWorkers]
    /\ shards \in 1..MaxShards

\* Task k runs and the next guard of its operation is free.
CanAcquire(k) ==
    /\ tasks[k].status = "Running"
    /\ Len(tasks[k].guards) < Len(Wanted(tasks[k]))
    /\ Free(Wanted(tasks[k])[Len(tasks[k].guards) + 1], k)

\* Task k runs and holds the guards of its operation.
CanOperate(k) ==
    /\ tasks[k].status = "Running"
    /\ tasks[k].guards = Wanted(tasks[k])

\* A running task takes the next guard of its operation, once it is free.
TaskAcquire(k) ==
    /\ CanAcquire(k)
    /\ tasks' = [tasks EXCEPT
                    ![k].guards = Append(@, Wanted(tasks[k])[Len(tasks[k].guards) + 1])]
    /\ UNCHANGED <<engine_vars, remaining, config, shards, sched, batch, chunk, results,
                   o_accounts, o_store, panicked, output>>

\* The operation is made and its guards are dropped.
released(s) == [s EXCEPT !.task.guards = <<>>]

\* A running task that holds the guards of its operation makes it.
TaskOperate(k) ==
    /\ CanOperate(k)
    /\ Stepped(k, released(task_step(a_accounts, a_store, tasks[k])))
    /\ UNCHANGED <<s_accounts, s_store, s_last, s_charged, remaining, config, shards, sched,
                   batch, chunk, results, o_accounts, o_store, panicked, output>>

AcquireSomeTask == \E k \in DOMAIN tasks : TaskAcquire(k)
OperateSomeTask == \E k \in DOMAIN tasks : TaskOperate(k)

NextLocks ==
    ReadRecord \/ ProcessBatch \/ StartSomeTask \/ AcquireSomeTask \/ OperateSomeTask
        \/ JoinAll \/ Finish

SpecLocks == InitLocks /\ [][NextLocks]_vars

\* ------------------------------------------------------------- threads on one account
\* Threads that share one engine and each call it with a withdrawal of the same
\* client, under a transaction id of their own, after a deposit (transaction 0)
\* has been processed.
MaxThreads == 3

DepositOf(client, tx, amount) ==
    [tx_type |-> Deposit, client |-> client, tx |-> tx, amount |-> Some(amount)]

WithdrawalOf(client, tx, amount) ==
    [tx_type |-> Withdrawal, client |-> client, tx |-> tx, amount |-> Some(amount)]

\* A thread is a running task with one record.
Thread(record) ==
    [Task(0, <<Sourced(record.tx, record)>>) EXCEPT !.status = "Running"]

Deposited(e) ==
    /\ a_accounts = e.accounts
    /\ a_store = e.store

InitThreads ==
    /\ \E amount \in 1..MaxDecimal :
          Deposited(AsyncTransactionEngine_process_transaction(
                        EmptyMap, EmptyMap, DepositOf(1, 0, amount)))
    /\ \E amounts \in [1..MaxThreads -> (-1..MaxAmount) \ {0}] :
          tasks = [i \in 1..MaxThreads |-> Thread(WithdrawalOf(1, i, amounts[i]))]
    /\ s_accounts = EmptyMap
    /\ s_store = EmptyMap
    /\ s_last = NoCall
    /\ a_last = NoCall
    /\ s_charged = {}
    /\ a_charged = {}
    /\ remaining = 0
    /\ config = BatchConfig(1, MaxThreads)
    /\ shards = 1
    /\ sched = "join"
    /\ batch = <<>>
    /\ chunk = 0
    /\ results = <<>>
    /\ o_accounts = EmptyMap
    /\ o_store = EmptyMap
    /\ panicked = {}
    /\ output = NoOutput

\* Some thread makes the next DashMap operation of its call.
NextThreads == StepSomeTask

SpecThreads == InitThreads /\ [][NextThreads]_vars

\* ------------------------------------------------------------- threads on one transaction
\* Threads that share one engine and each call it with a record of the dispute
\* lifecycle of the same transaction (transaction 0, a deposit of client 1):
\* disputes while the transaction is not under dispute, resolves and chargebacks
\* once a dispute of it has been processed.
MaxCallers == 2

LifecycleRecord(tx_type, client, tx) ==
    [tx_type |-> tx_type, client |-> client, tx |-> tx, amount |-> None]

\* The engine after the deposit, and after its dispute when disputed.
Recorded(amount, disputed) ==
    LET e == AsyncTransactionEngine_process_transaction(
                 EmptyMap, EmptyMap, DepositOf(1, 0, amount))
    IN  IF disputed
        THEN AsyncTransactionEngine_process_transaction(
                 e.accounts, e.store, LifecycleRecord(Dispute, 1, 0))
        ELSE e

InitLifecycle ==
    /\ \E amount \in 1..MaxAmount, disputed \in BOOLEAN :
          /\ Deposited(Recorded(amount, disputed))
          /\ \E kinds \in [1..MaxCallers ->
                              IF disputed THEN {Resolve, Chargeback} ELSE {Dispute}] :
                tasks = [i \in 1..MaxCallers |->
                            [Task(0, <<Sourced(i, LifecycleRecord(kinds[i], 1, 0))>>)
                                EXCEPT !.status = "Running"]]
    /\ s_accounts = EmptyMap
    /\ s_store = EmptyMap
    /\ s_last = NoCall
    /\ a_last = NoCall
    /\ s_charged = {}
    /\ a_charged = {}
    /\ remaining = 0
    /\ config = BatchConfig(1, MaxCallers)
    /\ shards = 1
    /\ sched = "join"
    /\ batch = <<>>
    /\ chunk = 0
    /\ results = <<>>
    /\ o_accounts = EmptyMap
    /\ o_store = EmptyMap
    /\ panicked = {}
    /\ output = NoOutput

\* Some thread makes the next DashMap operation of its call.
NextLifecycle == StepSomeTask

SpecLifecycle == InitLifecycle /\ [][NextLifecycle]_vars

\* ------------------------------------------------------------- properties


\* C1. Strategy equivalence: when the concurrent strategy has taken its final
\* accounts, they are the accounts of the sequential strategy for the same source
\* (the same clients, and available, held, total and locked of each), whatever
\* batch_size and max_concurrent_batches are.
C1_StrategyEquivalence == sched = "done" => a_accounts = s_accounts

\* C2. In every reachable state of both engines every account has
\* total = available + held, also right after a rejected record.
TotalIsSum(account) == account.total = account.available + account.held

C2_TotalIsAvailablePlusHeld ==
    /\ \A c \in DOMAIN s_accounts : TotalIsSum(s_accounts[c])
    /\ \A c \in DOMAIN a_accounts : TotalIsSum(a_accounts[c])

\* C3. With no negative amount in the source, every account of both engines has
\* available >= 0 and held >= 0 after every record.
NonNegative(account) == account.available >= 0 /\ account.held >= 0

C3_BalancesNonNegative ==
    /\ \A c \in DOMAIN s_accounts : NonNegative(s_accounts[c])
    /\ \A c \in DOMAIN a_accounts : NonNegative(a_accounts[c])

\* The clients a task holds records of, whether the task has started on its i-th
\* record, and whether the call for it has returned.
TaskClients(task) == {task.transactions[i].record.client : i \in DOMAIN task.transactions}
Started(task, i) ==
    i <= Len(task.results) \/ (i = Len(task.results) + 1 /\ task.call # None)
Applied(task, i) == i <= Len(task.results)

\* C4. Per-client total order in the concurrent strategy: of two records of one
\* client, the later in the source is not started before the call for the earlier
\* has returned, and no two running tasks hold records of the same client.
C4_PerClientOrder ==
    \A k1, k2 \in DOMAIN tasks :
        /\ \A i \in DOMAIN tasks[k1].transactions, j \in DOMAIN tasks[k2].transactions :
              ( /\ tasks[k1].transactions[i].record.client
                       = tasks[k2].transactions[j].record.client
                /\ tasks[k1].transactions[i].seq < tasks[k2].transactions[j].seq
                /\ Started(tasks[k2], j) )
              => Applied(tasks[k1], i)
        /\ (k1 # k2 /\ tasks[k1].status = "Running" /\ tasks[k2].status = "Running")
              => TaskClients(tasks[k1]) \cap TaskClients(tasks[k2]) = {}

\* A task is in the call for its second record while the task of another client
\* is in a call too.
C4_Witness ==
    \E k1, k2 \in DOMAIN tasks :
        /\ k1 # k2
        /\ Len(tasks[k1].results) >= 1
        /\ tasks[k1].call # None
        /\ tasks[k2].call # None

\* C5. Chunk barrier: while the scheduler reads a batch no task is left, every
\* task belongs to the batch process_batch was last called with, and no task of a
\* later batch has started while a task of an earlier batch has not finished.
C5_ChunkBarrier ==
    /\ sched = "read_batch" => tasks = <<>>
    /\ \A k \in DOMAIN tasks : tasks[k].chunk = chunk
    /\ \A k1, k2 \in DOMAIN tasks :
          (tasks[k1].chunk < tasks[k2].chunk /\ tasks[k2].status # "Spawned")
          => tasks[k1].status = "Finished"

\* The scheduler reads the second batch after the two tasks of the first have
\* returned their results.
C5_Witness ==
    /\ sched = "read_batch"
    /\ chunk = 1
    /\ batch # <<>>
    /\ \E i, j \in DOMAIN results : results[i].record.client # results[j].record.client

\* C6. For a fixed source and configuration every interleaving of a batch's tasks
\* ends with the same accounts: those of the schedule that runs the tasks one
\* after the other.
C6_InterleavingIndependent == sched = "done" => a_accounts = o_accounts

\* C7. Of two deposit or withdrawal records of different clients with the same
\* transaction id in one batch, at most one is applied: their calls do not both
\* return Ok.
SameIdMoves(r1, r2) ==
    /\ r1.tx_type \in {Deposit, Withdrawal}
    /\ r2.tx_type \in {Deposit, Withdrawal}
    /\ r1.tx = r2.tx
    /\ r1.client # r2.client

C7_UniqueIdsUnderConcurrency ==
    \A k1, k2 \in DOMAIN tasks :
        \A i \in DOMAIN tasks[k1].results, j \in DOMAIN tasks[k2].results :
            ( /\ tasks[k1].chunk = tasks[k2].chunk
              /\ SameIdMoves(tasks[k1].transactions[i].record,
                             tasks[k2].transactions[j].record) )
            => ~(tasks[k1].results[i] = Ok /\ tasks[k2].results[j] = Ok)

\* A step in which both engines processed a record: the record is s_last'.record[1]
\* (and a_last'.record[1]), the unprimed variables are the engines before the call.
ProcessStep == remaining' < remaining

IsMove(record) == record.tx_type \in {Deposit, Withdrawal}
DuplicateOf(record, store) == IsMove(record) /\ record.tx \in DOMAIN store

\* C8 as stated. A deposit or withdrawal whose transaction id is already in the
\* store is rejected with DuplicateTransaction in both engines, and neither the
\* store nor any account changes.
C8_DuplicateRejected ==
    [][ProcessStep =>
          /\ DuplicateOf(s_last'.record[1], s_store) =>
                /\ s_last'.result = "DuplicateTransaction"
                /\ s_store' = s_store
                /\ s_accounts' = s_accounts
          /\ DuplicateOf(a_last'.record[1], a_store) =>
                /\ a_last'.result = "DuplicateTransaction"
                /\ a_store' = a_store
                /\ a_accounts' = a_accounts]_vars

\* The error of a deposit or withdrawal with a stored transaction id: the lock
\* check and the amount check come before the duplicate check.
DuplicateError(record, locked) ==
    IF locked THEN "AccountLocked"
    ELSE IF record.amount = None THEN "MissingAmount"
    ELSE "DuplicateTransaction"

\* C8, amended. A deposit or withdrawal whose transaction id is already in the
\* store is rejected in both engines: with AccountLocked when its client's account
\* is locked, else with MissingAmount when it has no amount, else with
\* DuplicateTransaction. The store keeps its entry and no account changes.
C8_DuplicateRejectedAfterGates ==
    [][ProcessStep =>
          /\ DuplicateOf(s_last'.record[1], s_store) =>
                /\ s_last'.result =
                       DuplicateError(s_last'.record[1],
                                      is_locked(s_accounts, s_last'.record[1].client))
                /\ s_store' = s_store
                /\ s_accounts' = s_accounts
          /\ DuplicateOf(a_last'.record[1], a_store) =>
                /\ a_last'.result =
                       DuplicateError(a_last'.record[1],
                           AsyncAccountManager_is_locked(a_accounts,
                                                         a_last'.record[1].client))
                /\ a_store' = a_store
                /\ a_accounts' = a_accounts]_vars

\* Both engines rejected, with DuplicateTransaction, a record of another client
\* than the one whose record is stored under the id.
C8_Witness ==
    /\ s_last.result = "DuplicateTransaction"
    /\ a_last.result = "DuplicateTransaction"
    /\ s_store[s_last.record[1].tx].client # s_last.record[1].client
    /\ a_store[a_last.record[1].tx].client # a_last.record[1].client

\* C9. Lock gate, rejecting half: in both engines a deposit or withdrawal whose
\* client's account is locked fails with AccountLocked, whatever its amount and
\* its transaction id are, and the accounts and the store stay as they were.
C9_LockGateRejects ==
    [][ProcessStep =>
          /\ ( /\ IsMove(s_last'.record[1])
               /\ is_locked(s_accounts, s_last'.record[1].client) ) =>
                /\ s_last'.result = "AccountLocked"
                /\ s_accounts' = s_accounts
                /\ s_store' = s_store
          /\ ( /\ IsMove(a_last'.record[1])
               /\ AsyncAccountManager_is_locked(a_accounts, a_last'.record[1].client) ) =>
                /\ a_last'.result = "AccountLocked"
                /\ a_accounts' = a_accounts
                /\ a_store' = a_store]_vars

\* Both engines rejected, with AccountLocked, a deposit or withdrawal whose
\* transaction id is in the store already.
C9_Witness ==
    /\ s_last.result = "AccountLocked"
    /\ a_last.result = "AccountLocked"
    /\ DuplicateOf(s_last.record[1], s_store)
    /\ DuplicateOf(a_last.record[1], a_store)

\* C10. Lock gate, permitting half: neither engine rejects a dispute, resolve or
\* chargeback with AccountLocked.
C10_LockGatePermits ==
    (s_last.record # None /\ ~IsMove(s_last.record[1])) =>
        (s_last.result # "AccountLocked" /\ a_last.result # "AccountLocked")

\* No balance of new differs from old: an account of old keeps available, held and
\* total, and an account that old does not have holds nothing.
SameBalances(old, new) ==
    \A c \in DOMAIN new :
        IF c \in DOMAIN old
        THEN /\ new[c].available = old[c].available
             /\ new[c].held = old[c].held
             /\ new[c].total = old[c].total
        ELSE new[c].available = 0 /\ new[c].held = 0 /\ new[c].total = 0

IsDisputeKind(record) == record.tx_type \in {Dispute, Resolve, Chargeback}

\* C11. ChargedBack is terminal: in both engines, a dispute, resolve or chargeback
\* that references a transaction whose chargeback has succeeded is rejected, and
\* no balance and no stored transaction changes.
C11_ChargedBackIsTerminal ==
    [][ProcessStep =>
          /\ ( /\ IsDisputeKind(s_last'.record[1])
               /\ s_last'.record[1].tx \in s_charged ) =>
                /\ s_last'.result # Ok
                /\ SameBalances(s_accounts, s_accounts')
                /\ s_store' = s_store
          /\ ( /\ IsDisputeKind(a_last'.record[1])
               /\ a_last'.record[1].tx \in a_charged ) =>
                /\ a_last'.result # Ok
                /\ SameBalances(a_accounts, a_accounts')
                /\ a_store' = a_store]_vars

\* The record references a stored transaction of its own client.
References(record, store) ==
    record.tx \in DOMAIN store /\ store[record.tx].client = record.client

NotDisputedRef(record, store) ==
    /\ record.tx_type \in {Resolve, Chargeback}
    /\ References(record, store)
    /\ ~store[record.tx].under_dispute

\* C12. In both engines a resolve or chargeback that references a stored
\* transaction of its client which is not under dispute fails with
\* TransactionNotDisputed, and no balance and no dispute flag changes.
C12_NotDisputedRejected ==
    [][ProcessStep =>
          /\ NotDisputedRef(s_last'.record[1], s_store) =>
                /\ s_last'.result = "TransactionNotDisputed"
                /\ SameBalances(s_accounts, s_accounts')
                /\ s_store' = s_store
          /\ NotDisputedRef(a_last'.record[1], a_store) =>
                /\ a_last'.result = "TransactionNotDisputed"
                /\ SameBalances(a_accounts, a_accounts')
                /\ a_store' = a_store]_vars

\* A dispute of a transaction of the record's client that is in the Disputed
\* state: under dispute and not charged back.
DisputedRef(record, store, charged) ==
    /\ record.tx_type = Dispute
    /\ References(record, store)
    /\ store[record.tx].under_dispute
    /\ record.tx \notin charged

\* C13. In both engines a dispute that references a stored transaction of its
\* client which is under dispute already fails with TransactionAlreadyDisputed and
\* holds no further funds: no balance changes.
C13_AlreadyDisputedRejected ==
    [][ProcessStep =>
          /\ DisputedRef(s_last'.record[1], s_store, s_charged) =>
                /\ s_last'.result = "TransactionAlreadyDisputed"
                /\ SameBalances(s_accounts, s_accounts')
          /\ DisputedRef(a_last'.record[1], a_store, a_charged) =>
                /\ a_last'.result = "TransactionAlreadyDisputed"
                /\ SameBalances(a_accounts, a_accounts')]_vars

\* new is old, but for a fresh account of client.
Unmutated(old, new, client) ==
    /\ DOMAIN old \subseteq DOMAIN new
    /\ \A c \in DOMAIN new :
          IF c \in DOMAIN old THEN new[c] = old[c]
          ELSE c = client /\ new[c] = Account_new(c)

\* C14. No partial mutation: in both engines a record that returns an error leaves
\* every account and the store as they were; at most a zero-balance unlocked
\* account for the record's client has been created.
C14_NoPartialMutation ==
    [][ProcessStep =>
          /\ s_last'.result # Ok =>
                /\ Unmutated(s_accounts, s_accounts', s_last'.record[1].client)
                /\ s_store' = s_store
          /\ a_last'.result # Ok =>
                /\ Unmutated(a_accounts, a_accounts', a_last'.record[1].client)
                /\ a_store' = a_store]_vars

\* A dispute of an undisputed transaction of the record's client whose amount is
\* more than the account has available.
UnfundedDispute(record, store, accounts) ==
    /\ record.tx_type = Dispute
    /\ References(record, store)
    /\ ~store[record.tx].under_dispute
    /\ record.client \in DOMAIN accounts
    /\ store[record.tx].amount > accounts[record.client].available

\* C15. Dispute needs available funds: in both engines a dispute of an undisputed
\* transaction whose amount exceeds the available balance is rejected with
\* InsufficientAvailableFunds; the transaction stays undisputed and no balance
\* changes.
C15_DisputeNeedsAvailableFunds ==
    [][ProcessStep =>
          /\ UnfundedDispute(s_last'.record[1], s_store, s_accounts) =>
                /\ s_last'.result = "InsufficientAvailableFunds"
                /\ s_store' = s_store
                /\ SameBalances(s_accounts, s_accounts')
          /\ UnfundedDispute(a_last'.record[1], a_store, a_accounts) =>
                /\ a_last'.result = "InsufficientAvailableFunds"
                /\ a_store' = a_store
                /\ SameBalances(a_accounts, a_accounts')]_vars

\* The account the engine finds or creates for client.
AccountOf(accounts, client) ==
    IF client \in DOMAIN accounts THEN accounts[client] ELSE Account_new(client)

\* A deposit that passes the lock, amount and duplicate checks and whose amount
\* does not fit on top of available or of total.
OverflowingDeposit(record, store, accounts) ==
    /\ record.tx_type = Deposit
    /\ record.amount # None
    /\ record.tx \notin DOMAIN store
    /\ ~AccountOf(accounts, record.client).locked
    /\ \/ AccountOf(accounts, record.client).available + record.amount[1] > MaxDecimal
       \/ AccountOf(accounts, record.client).total + record.amount[1] > MaxDecimal

\* C16. Checked deposit: in both engines a deposit whose addition to available or
\* to total exceeds the largest Decimal is rejected with ArithmeticOverflow, no
\* balance changes and the transaction is not stored.
C16_CheckedDeposit ==
    [][ProcessStep =>
          /\ OverflowingDeposit(s_last'.record[1], s_store, s_accounts) =>
                /\ s_last'.result = "ArithmeticOverflow"
                /\ SameBalances(s_accounts, s_accounts')
                /\ s_last'.record[1].tx \notin DOMAIN s_store'
          /\ OverflowingDeposit(a_last'.record[1], a_store, a_accounts) =>
                /\ a_last'.result = "ArithmeticOverflow"
                /\ SameBalances(a_accounts, a_accounts')
                /\ a_last'.record[1].tx \notin DOMAIN a_store']_vars

\* The call was a withdrawal rejected for insufficient funds.
RejectedWithdrawal(last) ==
    /\ last.record # None
    /\ last.record[1].tx_type = Withdrawal
    /\ last.result = "InsufficientFunds"

\* The record after a rejected withdrawal is answered as if the withdrawal's id
\* had never been seen: a dispute of the id finds no transaction, a deposit or
\* withdrawal with the id is no duplicate.
IdUnseen(last, record, result) ==
    (RejectedWithdrawal(last) /\ record.tx = last.record[1].tx) =>
        /\ record.tx_type = Dispute => result = "TransactionNotFound"
        /\ IsMove(record) => result # "DuplicateTransaction"

\* C17. A withdrawal rejected for InsufficientFunds is not stored, in both
\* engines: the store is as before, a dispute of its id that follows fails with
\* TransactionNotFound and a deposit or withdrawal that reuses the id is not
\* rejected as a duplicate.
C17_RejectedWithdrawalNotStored ==
    [][ProcessStep =>
          /\ RejectedWithdrawal(s_last') =>
                (s_store' = s_store /\ s_last'.record[1].tx \notin DOMAIN s_store')
          /\ IdUnseen(s_last, s_last'.record[1], s_last'.result)
          /\ RejectedWithdrawal(a_last') =>
                (a_store' = a_store /\ a_last'.record[1].tx \notin DOMAIN a_store')
          /\ IdUnseen(a_last, a_last'.record[1], a_last'.result)]_vars

\* Every account that is locked in old is an account of new and locked there.
StaysLocked(old, new) ==
    \A c \in DOMAIN old : old[c].locked => (c \in DOMAIN new /\ new[c].locked)

\* C18. The locked flag is one-way: in both engines an account that is locked
\* stays locked, whatever record is processed next.
C18_LockedIsOneWay ==
    [][StaysLocked(s_accounts, s_accounts') /\ StaysLocked(a_accounts, a_accounts')]_vars

\* Both engines hold a locked account, and the concurrent engine has just
\* accepted a resolve or a dispute of that client.
C18_Witness ==
    /\ a_last.record # None
    /\ a_last.result = Ok
    /\ a_last.record[1].tx_type \in {Dispute, Resolve}
    /\ a_last.record[1].client \in DOMAIN s_accounts
    /\ s_accounts[a_last.record[1].client].locked
    /\ a_accounts[a_last.record[1].client].locked

\* Every account that is locked in old has in new the balances it has in old.
Frozen(old, new) ==
    \A c \in DOMAIN old :
        old[c].locked =>
            /\ c \in DOMAIN new
            /\ new[c].available = old[c].available
            /\ new[c].held = old[c].held
            /\ new[c].total = old[c].total

\* C19. A lock is a permanent freeze: in both engines the available, held and
\* total of a locked account never change again, whatever record is processed.
C19_LockFreezesBalances ==
    [][Frozen(s_accounts, s_accounts') /\ Frozen(a_accounts, a_accounts')]_vars

\* The dispute and the resolve of transaction tx sent by client.
DisputeOf(client, tx) == [tx_type |-> Dispute, client |-> client, tx |-> tx, amount |-> None]
ResolveOf(client, tx) == [tx_type |-> Resolve, client |-> client, tx |-> tx, amount |-> None]

\* e0 is an engine, e1 the engine after the dispute d and e2 after the resolve
\* that follows, again the result of d on e2: when both calls succeeded, e2 has
\* the accounts and the store of e0 and d succeeds once more.
RoundTrip(e0, e1, e2, again) ==
    (e1.result = Ok /\ e2.result = Ok) =>
        /\ e2.accounts = e0.accounts
        /\ e2.store = e0.store
        /\ again.result = Ok

SyncAfterResolve(e0, e1, e2, d) ==
    RoundTrip(e0, e1, e2, TransactionEngine_process(e2.accounts, e2.store, d))

SyncAfterDispute(e0, e1, d, r) ==
    SyncAfterResolve(e0, e1, TransactionEngine_process(e1.accounts, e1.store, r), d)

SyncRoundTrip(e0, d, r) ==
    SyncAfterDispute(e0, TransactionEngine_process(e0.accounts, e0.store, d), d, r)

AsyncAfterResolve(e0, e1, e2, d) ==
    RoundTrip(e0, e1, e2,
              AsyncTransactionEngine_process_transaction(e2.accounts, e2.store, d))

AsyncAfterDispute(e0, e1, d, r) ==
    AsyncAfterResolve(e0, e1,
        AsyncTransactionEngine_process_transaction(e1.accounts, e1.store, r), d)

AsyncRoundTrip(e0, d, r) ==
    AsyncAfterDispute(e0,
        AsyncTransactionEngine_process_transaction(e0.accounts, e0.store, d), d, r)

\* C20. Dispute/resolve round trip: in both engines and from every reachable
\* state, a successful dispute of a transaction followed at once by a successful
\* resolve of it gives back the accounts (available, held, total, locked) and the
\* store (the transaction is not under dispute) as they were, and a further
\* dispute of the transaction succeeds.
C20_DisputeResolveRoundTrip ==
    \A client \in Clients, tx \in TxIds :
        /\ SyncRoundTrip(Engine(s_accounts, s_store, Ok),
                         DisputeOf(client, tx), ResolveOf(client, tx))
        /\ AsyncRoundTrip(Engine(a_accounts, a_store, Ok),
                          DisputeOf(client, tx), ResolveOf(client, tx))

\* Both engines have just accepted the resolve of a transaction with a non-zero
\* amount that is not under dispute any more, on an account holding nothing.
C20_Witness ==
    /\ s_last.record # None
    /\ s_last.record[1].tx_type = Resolve
    /\ s_last.result = Ok
    /\ a_last.result = Ok
    /\ ~s_store[s_last.record[1].tx].under_dispute
    /\ ~a_store[a_last.record[1].tx].under_dispute
    /\ s_store[s_last.record[1].tx].amount > 0
    /\ s_accounts[s_last.record[1].client].held = 0
    /\ a_accounts[a_last.record[1].client].held = 0

\* A chargeback of a transaction of the record's client that is in the Disputed
\* state: under dispute and not charged back.
DisputedChargeback(record, store, charged) ==
    /\ record.tx_type = Chargeback
    /\ References(record, store)
    /\ store[record.tx].under_dispute
    /\ record.tx \notin charged

\* What a chargeback of amount does to the account old, given its result and the
\* account new it leaves: without the held funds it fails with
\* InsufficientHeldFunds and locks nothing, and when it succeeds the funds were
\* held, held and total are down by amount, available is as before and the
\* account is locked.
ChargebackEffect(old, new, amount, result) ==
    /\ old.held < amount =>
          (result = "InsufficientHeldFunds" /\ new.locked = old.locked)
    /\ result = Ok =>
          /\ old.held >= amount
          /\ new.held = old.held - amount
          /\ new.total = old.total - amount
          /\ new.available = old.available
          /\ new.locked

\* C21. Chargeback effect: in both engines a chargeback of a Disputed transaction
\* with stored amount a succeeds only if held >= a, and otherwise fails with
\* InsufficientHeldFunds and does not lock; when it succeeds held and total are
\* each down by a, available is unchanged and the account is locked.
C21_ChargebackEffect ==
    [][ProcessStep =>
          /\ DisputedChargeback(s_last'.record[1], s_store, s_charged) =>
                ChargebackEffect(AccountOf(s_accounts, s_last'.record[1].client),
                                 AccountOf(s_accounts', s_last'.record[1].client),
                                 s_store[s_last'.record[1].tx].amount, s_last'.result)
          /\ DisputedChargeback(a_last'.record[1], a_store, a_charged) =>
                ChargebackEffect(AccountOf(a_accounts, a_last'.record[1].client),
                                 AccountOf(a_accounts', a_last'.record[1].client),
                                 a_store[a_last'.record[1].tx].amount, a_last'.result)]_vars


\* A dispute, resolve or chargeback that references a stored transaction of
\* another client than its own.
MismatchedRef(record, store) ==
    /\ IsDisputeKind(record)
    /\ record.tx \in DOMAIN store
    /\ store[record.tx].client # record.client

\* C22. Client match: in both engines a dispute, resolve or chargeback whose
\* client_id differs from the client_id of the stored transaction it references
\* is rejected with ClientMismatch; no account and no stored transaction changes.
C22_ClientMismatchRejected ==
    [][ProcessStep =>
          /\ MismatchedRef(s_last'.record[1], s_store) =>
                /\ s_last'.result = "ClientMismatch"
                /\ s_accounts' = s_accounts
                /\ s_store' = s_store
          /\ MismatchedRef(a_last'.record[1], a_store) =>
                /\ a_last'.result = "ClientMismatch"
                /\ a_accounts' = a_accounts
                /\ a_store' = a_store]_vars


\* The task has come to its end, by returning or by panicking.
Ended(task) == task.status \in {"Finished", "Panicked"}

\* The task has returned with one result per record, and rs holds each of them.
AllApplied(task) ==
    task.status = "Finished" /\ Len(task.results) = Len(task.transactions)

Reported(task, rs) ==
    \A i \in DOMAIN task.transactions :
        \E j \in DOMAIN rs :
            /\ rs[j].record = task.transactions[i].record
            /\ rs[j].result = task.results[i]

\* The step in which task k panics leaves both maps, every other task and the
\* scheduler as they are.
PanicIsolated(k) ==
    ( /\ k \in DOMAIN tasks'
      /\ tasks[k].status = "Running"
      /\ tasks'[k].status = "Panicked" ) =>
        /\ a_accounts' = a_accounts
        /\ a_store' = a_store
        /\ sched' = sched
        /\ \A j \in DOMAIN tasks \ {k} : tasks'[j] = tasks[j]

\* The step in which process_batch returns: every task that did not panic has
\* applied all its records and its results are returned, no task is left, and the
\* scheduler reads the next batch.
JoinIsolated ==
    (sched = "join" /\ sched' # "join") =>
        /\ \A k \in DOMAIN tasks :
              tasks[k].status # "Panicked" =>
                  (AllApplied(tasks[k]) /\ Reported(tasks[k], results'))
        /\ tasks' = <<>>
        /\ sched' = "read_batch"

\* Once every task of the batch has ended, panicked or not, process_batch can
\* return.
JoinReturns ==
    (sched = "join" /\ \A k \in DOMAIN tasks : Ended(tasks[k])) => ENABLED JoinAll

\* C23. Worker-failure isolation: when the task of a client panics, the panic
\* changes no account, no stored transaction and no other task; process_batch
\* still returns once every task has ended, after the tasks of all other clients
\* of the batch have applied every one of their records, and the scheduler goes
\* on to read the next batch.
C23_WorkerFailureIsolation ==
    /\ []JoinReturns
    /\ [][JoinIsolated /\ \A k \in DOMAIN tasks : PanicIsolated(k)]_vars

\* process_batch has returned from a batch in which the task of one client
\* panicked after it had stored a transaction and the task of another client
\* returned its results, and the scheduler is reading the next batch.
C23_Witness ==
    /\ sched = "read_batch"
    /\ batch # <<>>
    /\ panicked # {}
    /\ \E i \in DOMAIN results : results[i].record.client \notin panicked
    /\ \E c \in panicked : \E t \in DOMAIN a_store : a_store[t].client = c


\* Some worker can take a step: a spawned task finds a free worker thread, or a
\* running task can take its next guard or make its operation.
CanStart(k) ==
    tasks[k].status = "Spawned" /\ Cardinality(Running) < config.max_concurrent_batches

WorkerCanStep == \E k \in DOMAIN tasks : CanStart(k) \/ CanAcquire(k) \/ CanOperate(k)

\* C24. No task ever holds more than one guard, of an account entry or of a
\* stored-transaction entry, while it processes a record; and no deadlock is
\* reachable: as long as a task of the batch has not finished, some task can
\* take a step.
C24_OneGuardNoDeadlock ==
    /\ \A k \in DOMAIN tasks : Len(tasks[k].guards) <= 1
    /\ (\E k \in DOMAIN tasks : tasks[k].status # "Finished") => WorkerCanStep

\* Two tasks run at once and one of them waits: it needs a guard that
\* conflicts with the write guard the other holds.
C24_Witness ==
    \E k1, k2 \in DOMAIN tasks :
        /\ k1 # k2
        /\ tasks[k1].status = "Running"
        /\ tasks[k2].status = "Running"
        /\ tasks[k1].guards # <<>>
        /\ tasks[k1].guards[1].write
        /\ tasks[k2].guards = <<>>
        /\ ~Free(Wanted(tasks[k2])[1], k2)


\* C25. Termination: for every source and every batch_size >= 1, under fair
\* scheduling the concurrent strategy eventually takes the final accounts, and
\* it takes them only when the source is exhausted, no record waits in a batch
\* and every task of the last batch has finished and been joined.
C25_Termination ==
    /\ <>(sched = "done")
    /\ [](sched = "done" => (remaining = 0 /\ batch = <<>> /\ tasks = <<>>))

\* The final accounts are taken after two batches, with the accounts of two
\* clients.
C25_Witness ==
    /\ sched = "done"
    /\ chunk >= 2
    /\ Cardinality(DOMAIN a_accounts) >= 2


\* How often record r occurs among the transactions of the tasks ts, and among
\* the results rs.
InTasks(ts, r) ==
    Cardinality({p \in (DOMAIN ts) \X (1..MaxBatchSize) :
                    p[2] \in DOMAIN ts[p[1]].transactions
                    /\ ts[p[1]].transactions[p[2]].record = r})

InResults(rs, r) == Cardinality({i \in DOMAIN rs : rs[i].record = r})

InBatch(b, r) == Cardinality({i \in DOMAIN b : b[i].record = r})

\* The sequential strategy applies the record it has just read.
ReadOnce ==
    (remaining' < remaining) =>
        s_last'.record = Some(batch'[Len(batch')].record)

\* process_batch spawns tasks that hold every record of the batch as often as
\* the batch does.
SpawnedOnce ==
    (sched = "read_batch" /\ sched' = "join") =>
        \A r \in BatchRecord : InTasks(tasks', r) = InBatch(batch, r)

\* A task goes through its records one by one: a step adds at most one result,
\* that of the call for the record it is at, and keeps the results it has.
AppliedInTurn ==
    (sched = "join" /\ sched' = "join") =>
        \A k \in DOMAIN tasks :
            /\ Len(tasks'[k].results) \in {Len(tasks[k].results), Len(tasks[k].results) + 1}
            /\ SubSeq(tasks'[k].results, 1, Len(tasks[k].results)) = tasks[k].results
            /\ Len(tasks'[k].results) <= Len(tasks[k].transactions)

\* process_batch returns when every task has a result for each of its records,
\* and returns one result per record.
ReturnedOnce ==
    (sched = "join" /\ sched' = "read_batch") =>
        /\ \A k \in DOMAIN tasks : AllApplied(tasks[k]) /\ Reported(tasks[k], results')
        /\ \A r \in BatchRecord : InResults(results', r) = InTasks(tasks, r)

\* C26. Every record is applied exactly once: the sequential strategy applies
\* each record as it reads it; the concurrent strategy, with no task panicking,
\* hands every record of a batch to exactly one task, every task applies each of
\* its records once, in turn and also after a call that returned an error, and
\* process_batch returns exactly one result per record of the batch.
C26_EveryRecordOnce ==
    [][ReadOnce /\ SpawnedOnce /\ AppliedInTurn /\ ReturnedOnce]_vars

\* process_batch has returned the results of a batch in which a record of a
\* client was rejected and a later record of the same client was accepted.
C26_Witness ==
    /\ sched = "read_batch"
    /\ \E i, j \in DOMAIN results :
          /\ i < j
          /\ results[i].record.client = results[j].record.client
          /\ results[i].result # Ok
          /\ results[j].result = Ok


\* The amounts of the withdrawals whose balance update has succeeded: of the
\* calls that returned Ok and of those that have the store of their transaction
\* left to do.
RECURSIVE Debited(_, _)
Debited(ts, k) ==
    IF k = 0 THEN 0
    ELSE Debited(ts, k - 1)
         + (IF ts[k].results = <<Ok>>
               \/ (ts[k].call # None /\ ts[k].call[1].pc = "store")
            THEN ts[k].transactions[1].record.amount[1] ELSE 0)

\* The funds check and the debit are one step: in every intermediate state
\* available is the deposited balance less the amounts of the withdrawals that
\* succeeded and is not negative, so those amounts never add up to more than
\* the balance.
NeverOverdrawn ==
    /\ a_accounts[1].available = a_store[0].amount - Debited(tasks, Len(tasks))
    /\ a_accounts[1].available >= 0
    /\ a_accounts[1].total = a_accounts[1].available

OfClient(b, c) == SelectSeq(b, LAMBDA r : r.record.client = c)

\* p is an order-preserving split of b by client: its keys are the clients that
\* have a record in b, each mapped to exactly its records in their order in b,
\* and every record of b is in one partition, once.
OrderPreservingSplit(b, p) ==
    /\ DOMAIN p = {b[i].record.client : i \in DOMAIN b}
    /\ \A c \in DOMAIN p : p[c] # <<>> /\ p[c] = OfClient(b, c)
    /\ \A i \in DOMAIN b :
          Cardinality({q \in (DOMAIN p) \X (1..Len(b)) :
                          q[2] \in DOMAIN p[q[1]] /\ p[q[1]][q[2]] = b[i]}) = 1

\* C28. Partitioning is an order-preserving split: for every batch the
\* scheduler reads, partition_by_client maps each client with a record in the
\* batch to exactly the records of that client, in their order in the batch;
\* a client without a record has no partition, and no record is lost,
\* duplicated or put in the partition of another client.
C28_PartitionPreservesOrder == OrderPreservingSplit(batch, partition_by_client(batch))

\* A batch in which the records of one client enclose a record of another.
C28_Witness ==
    /\ Len(batch) = 3
    /\ batch[1].record.client = batch[3].record.client
    /\ batch[1].record.client # batch[2].record.client
    /\ batch[1].record # batch[3].record


\* The row of a new account of client is in the rows written for accounts,
\* however the map iterates.
InSnapshot(accounts, client) ==
    /\ client \in DOMAIN accounts
    /\ \A order \in Orders(DOMAIN accounts) :
          /\ \E i \in DOMAIN order :
                write_accounts_csv(AccountManager_get_all_accounts(accounts, order))[i]
                    = Row(Account_new(client))
          /\ \E i \in DOMAIN order :
                write_accounts_csv(AsyncAccountManager_get_all_accounts(accounts, order))[i]
                    = Row(Account_new(client))

\* A withdrawal with a positive amount for a client that has no account.
FirstWithdrawal(record, accounts) ==
    /\ record.tx_type = Withdrawal
    /\ record.amount # None
    /\ record.amount[1] > 0
    /\ record.client \notin DOMAIN accounts

\* The withdrawal failed for lack of funds and left a zero-balance unlocked
\* account of its client, which the snapshot shows.
RejectedOnNewAccount(record, result, accounts) ==
    /\ result = "InsufficientFunds"
    /\ InSnapshot(accounts, record.client)

\* C29 as stated. In both engines a withdrawal with a positive amount for a
\* client that has no account yet fails with InsufficientFunds and leaves that
\* client an account with available = held = total = 0 and locked = false, which
\* is in the snapshot.
C29_WithdrawalWithoutAccount ==
    [][ProcessStep =>
          /\ FirstWithdrawal(s_last'.record[1], s_accounts) =>
                RejectedOnNewAccount(s_last'.record[1], s_last'.result, s_accounts')
          /\ FirstWithdrawal(a_last'.record[1], a_accounts) =>
                RejectedOnNewAccount(a_last'.record[1], a_last'.result, a_accounts')]_vars

\* The withdrawal was rejected as a duplicate, and no account was created.
RejectedAsDuplicate(record, result, accounts) ==
    /\ result = "DuplicateTransaction"
    /\ record.client \notin DOMAIN accounts

\* C29, amended. In both engines a withdrawal with a positive amount for a
\* client that has no account yet fails: with InsufficientFunds when its
\* transaction id is not in the store, and then that client has an account with
\* available = held = total = 0 and locked = false, which is in the snapshot;
\* with DuplicateTransaction when the id is in the store, and then no account is
\* created.
C29_WithdrawalWithoutAccountOrDuplicate ==
    [][ProcessStep =>
          /\ FirstWithdrawal(s_last'.record[1], s_accounts) =>
                IF s_last'.record[1].tx \in DOMAIN s_store
                THEN RejectedAsDuplicate(s_last'.record[1], s_last'.result, s_accounts')
                ELSE RejectedOnNewAccount(s_last'.record[1], s_last'.result, s_accounts')
          /\ FirstWithdrawal(a_last'.record[1], a_accounts) =>
                IF a_last'.record[1].tx \in DOMAIN a_store
                THEN RejectedAsDuplicate(a_last'.record[1], a_last'.result, a_accounts')
                ELSE RejectedOnNewAccount(a_last'.record[1], a_last'.result, a_accounts')]_vars

\* Both engines have rejected, with InsufficientFunds, a withdrawal of a client
\* that had no account, after another client's account was created: the new
\* account is there with nothing in it.
C29_Witness ==
    /\ s_last.record # None
    /\ s_last.record[1].tx_type = Withdrawal
    /\ s_last.result = "InsufficientFunds"
    /\ a_last.result = "InsufficientFunds"
    /\ Cardinality(DOMAIN s_accounts) = 2
    /\ Cardinality(DOMAIN a_accounts) = 2
    /\ s_accounts[s_last.record[1].client] = Account_new(s_last.record[1].client)
    /\ a_accounts[a_last.record[1].client] = Account_new(a_last.record[1].client)
    /\ s_last.record[1].tx \notin DOMAIN s_store


\* The clients of the rows, in the order of the rows.
RowClients(rows) == [i \in DOMAIN rows |-> rows[i].client]

\* Each row's client is below the next row's.
StrictlyAscending(clients) ==
    \A i \in DOMAIN clients : i + 1 \in DOMAIN clients => clients[i] < clients[i + 1]

\* The rows are one row per account of the map, each the row of that account,
\* in strictly ascending order of client.
SnapshotOf(rows, accounts) ==
    /\ Len(rows) = Cardinality(DOMAIN accounts)
    /\ {rows[i] : i \in DOMAIN rows} = {Row(accounts[c]) : c \in DOMAIN accounts}
    /\ StrictlyAscending(RowClients(rows))

\* Once created, an account stays in its map.
AccountsKept ==
    /\ DOMAIN s_accounts \subseteq DOMAIN s_accounts'
    /\ DOMAIN a_accounts \subseteq DOMAIN a_accounts'
    /\ sched = "done" => sched' = "done"

\* C30. The snapshot either strategy writes has exactly one row per account
\* that was ever created, and its rows are in strictly ascending client_id
\* order, whatever the order in which the accounts were created and whatever
\* the order in which the map iterates.
C30_SnapshotSortedOneRowPerAccount ==
    /\ [](sched = "done" =>
            /\ SnapshotOf(output.sync, s_accounts)
            /\ SnapshotOf(output.async, a_accounts)
            /\ \A order \in Orders(DOMAIN a_accounts) :
                  write_accounts_csv(AsyncAccountManager_get_all_accounts(a_accounts, order))
                      = output.async)
    /\ [](sched # "done" => output = NoOutput)
    /\ [][AccountsKept]_vars

\* Both strategies have written a snapshot of two accounts, of which the one
\* with the larger client_id was created first: the source had two records, each
\* a batch of its own, and the second was the first of the smaller client_id.
C30_Witness ==
    /\ sched = "done"
    /\ Len(output.sync) = 2
    /\ Len(output.async) = 2
    /\ config.batch_size = 1
    /\ chunk = 2
    /\ Len(results) = 1
    /\ results[1].record.tx_type = Deposit
    /\ results[1].result = Ok
    /\ \A c \in DOMAIN a_accounts : results[1].record.client <= c

\* A deposit or withdrawal record that carries a negative amount.
NegativeAmount(record) ==
    /\ record.tx_type \in {Deposit, Withdrawal}
    /\ record.amount # None
    /\ record.amount[1] < 0

\* No stored transaction has a negative amount.
StoredNonNegative(store) == \A t \in DOMAIN store : store[t].amount >= 0

\* The call was rejected, the store has the entries it had, and no balance has
\* changed.
NotAccepted(result, store, new_store, accounts, new_accounts) ==
    /\ result # Ok
    /\ new_store = store
    /\ SameBalances(accounts, new_accounts)

\* C31. Every stored transaction has amount >= 0 in every reachable state: a
\* deposit or withdrawal record with a negative amount is never accepted by
\* either engine, it changes no balance and does not enter the store.
C31_NoNegativeAmounts ==
    /\ [](StoredNonNegative(s_store) /\ StoredNonNegative(a_store))
    /\ [][ProcessStep =>
            /\ NegativeAmount(s_last'.record[1]) =>
                  NotAccepted(s_last'.result, s_store, s_store', s_accounts, s_accounts')
            /\ NegativeAmount(a_last'.record[1]) =>
                  NotAccepted(a_last'.result, a_store, a_store', a_accounts, a_accounts')]_vars


\* What a call with record and result may do to the store: every entry stays,
\* with its client, amount and kind; an entry's dispute flag changes only when
\* the record is a dispute or a resolve of that entry; and an entry is new only
\* when the record is a deposit or withdrawal that was accepted, and then it is
\* that record's.
StoreLifecycle(store, new_store, record, result) ==
    /\ DOMAIN store \subseteq DOMAIN new_store
    /\ \A t \in DOMAIN store :
          /\ new_store[t].client = store[t].client
          /\ new_store[t].amount = store[t].amount
          /\ new_store[t].tx_type = store[t].tx_type
          /\ new_store[t].under_dispute # store[t].under_dispute =>
                (record.tx_type \in {Dispute, Resolve} /\ record.tx = t)
    /\ \A t \in DOMAIN new_store \ DOMAIN store :
          /\ record.tx_type \in {Deposit, Withdrawal}
          /\ record.tx = t
          /\ result = Ok
          /\ record.amount # None
          /\ new_store[t] = StoredTransaction(record.client, record.amount[1], record.tx_type)

\* C32. Stored transactions are created exactly once and never deleted: in both
\* engines an entry enters the store only when its deposit or withdrawal is
\* accepted, it is never removed, its client, amount and kind never change, and
\* only a dispute or a resolve changes its dispute flag.
C32_StoreLifecycle ==
    [][ProcessStep =>
          /\ StoreLifecycle(s_store, s_store', s_last'.record[1], s_last'.result)
          /\ StoreLifecycle(a_store, a_store', a_last'.record[1], a_last'.result)]_vars


\* The accounts a call has created.
Created(accounts, new_accounts) == DOMAIN new_accounts \ DOMAIN accounts

\* After a deposit or withdrawal the record's client has an account.
AccountAfterFunding(record, new_accounts) ==
    record.tx_type \in {Deposit, Withdrawal} => record.client \in DOMAIN new_accounts

\* A dispute, resolve or chargeback creates no account.
NoAccountByDisputeKind(record, accounts, new_accounts) ==
    IsDisputeKind(record) => Created(accounts, new_accounts) = {}

\* No account is removed.
AccountsStay(accounts, new_accounts) == DOMAIN accounts \subseteq DOMAIN new_accounts

\* C33 as stated. Account creation: after any deposit or withdrawal record of
\* client c has been processed, accepted or rejected, in either engine, an
\* account of c exists; no dispute, resolve or chargeback creates an account;
\* accounts are never removed; and both engines create accounts for the same
\* records.
C33_AccountCreation ==
    [][ProcessStep =>
          /\ AccountAfterFunding(s_last'.record[1], s_accounts')
          /\ AccountAfterFunding(a_last'.record[1], a_accounts')
          /\ NoAccountByDisputeKind(s_last'.record[1], s_accounts, s_accounts')
          /\ NoAccountByDisputeKind(a_last'.record[1], a_accounts, a_accounts')
          /\ AccountsStay(s_accounts, s_accounts')
          /\ AccountsStay(a_accounts, a_accounts')
          /\ Created(s_accounts, s_accounts') = Created(a_accounts, a_accounts')]_vars


\* The errors about the dispute state of the referenced transaction.
DisputeStateErrors == {"TransactionAlreadyDisputed", "TransactionNotDisputed"}

\* The result of a dispute, resolve or chargeback follows the order of the
\* checks: an unknown transaction id gives TransactionNotFound whatever the
\* client, a stored transaction of another client gives ClientMismatch whatever
\* its dispute state, and a dispute-state error comes only with a stored
\* transaction of the record's own client.
CheckPrecedence(record, store, result) ==
    IsDisputeKind(record) =>
        /\ record.tx \notin DOMAIN store => result = "TransactionNotFound"
        /\ MismatchedRef(record, store) => result = "ClientMismatch"
        /\ result \in DisputeStateErrors => References(record, store)

\* C34. Check precedence for dispute, resolve and chargeback records: in both
\* engines the checks are applied in the order lookup, client match, dispute
\* state, funds.
C34_CheckPrecedence ==
    [][ProcessStep =>
          /\ CheckPrecedence(s_last'.record[1], s_store, s_last'.result)
          /\ CheckPrecedence(a_last'.record[1], a_store, a_last'.result)]_vars


\* The account new is old with amount moved from available to held, total and
\* the lock flag as they were.
MovedToHeld(old, new, amount) ==
    /\ new.available = old.available - amount
    /\ new.held = old.held + amount
    /\ new.total = old.total
    /\ new.locked = old.locked

\* A call with a dispute or resolve that returned Ok referenced a stored
\* transaction of its client and moved that transaction's amount: a dispute
\* from available to held, a resolve from held to available.
DisputeResolveEffect(record, result, store, accounts, new_accounts) ==
    (record.tx_type \in {Dispute, Resolve} /\ result = Ok) =>
        /\ References(record, store)
        /\ record.client \in DOMAIN new_accounts
        /\ IF record.tx_type = Dispute
           THEN MovedToHeld(AccountOf(accounts, record.client), new_accounts[record.client],
                            store[record.tx].amount)
           ELSE MovedToHeld(AccountOf(accounts, record.client), new_accounts[record.client],
                            -store[record.tx].amount)

\* C35. Effect and frame of dispute and resolve: in both engines a successful
\* dispute moves exactly the stored transaction's amount from available to held
\* and a successful resolve moves exactly that amount from held to available,
\* whatever amount the dispute or resolve record itself carries; neither changes
\* total or locked.
C35_DisputeResolveEffect ==
    [][ProcessStep =>
          /\ DisputeResolveEffect(s_last'.record[1], s_last'.result, s_store,
                                  s_accounts, s_accounts')
          /\ DisputeResolveEffect(a_last'.record[1], a_last'.result, a_store,
                                  a_accounts, a_accounts')]_vars

\* Both engines have accepted a resolve that carries an amount other than the
\* stored transaction's, after a dispute of that transaction: the stored amount
\* is available again and nothing is held.
C35_Witness ==
    /\ s_last.record # None
    /\ s_last.record[1].tx_type = Resolve
    /\ s_last.record[1].amount # None
    /\ s_last.result = Ok
    /\ a_last.result = Ok
    /\ s_last.record[1].tx \in DOMAIN s_store
    /\ s_store[s_last.record[1].tx].amount # s_last.record[1].amount[1]
    /\ s_store[s_last.record[1].tx].amount > 0
    /\ s_accounts[s_last.record[1].client].available = s_store[s_last.record[1].tx].amount
    /\ a_accounts[s_last.record[1].client].available = s_store[s_last.record[1].tx].amount
    /\ s_accounts[s_last.record[1].client].held = 0
    /\ a_accounts[s_last.record[1].client].held = 0


\* A call with a record of client leaves every other client's account as it
\* was, creates no account for another client, and leaves the dispute flag of
\* every stored transaction of another client as it was.
PerClientFrame(client, accounts, new_accounts, store, new_store) ==
    /\ \A c \in Clients \ {client} :
          IF c \in DOMAIN accounts
          THEN c \in DOMAIN new_accounts /\ new_accounts[c] = accounts[c]
          ELSE c \notin DOMAIN new_accounts
    /\ \A t \in DOMAIN store :
          store[t].client # client =>
              /\ t \in DOMAIN new_store
              /\ new_store[t].under_dispute = store[t].under_dispute

\* C36. Per-client frame: in both engines, processing a record of client c never
\* modifies the account (available, held, total, locked) of another client and
\* never changes the dispute flag of a stored transaction of another client.
C36_PerClientFrame ==
    [][ProcessStep =>
          /\ PerClientFrame(s_last'.record[1].client, s_accounts, s_accounts',
                            s_store, s_store')
          /\ PerClientFrame(a_last'.record[1].client, a_accounts, a_accounts',
                            a_store, a_store')]_vars

\* Both engines have accepted a dispute of one client while another client has
\* an account with funds and a stored transaction that is not under dispute.
C36_Witness ==
    /\ s_last.record # None
    /\ s_last.record[1].tx_type = Dispute
    /\ s_last.result = Ok
    /\ a_last.result = Ok
    /\ \E c \in DOMAIN s_accounts \cap DOMAIN a_accounts :
          /\ c # s_last.record[1].client
          /\ s_accounts[c].available > 0
          /\ a_accounts[c].available > 0
          /\ \E t \in DOMAIN s_store \cap DOMAIN a_store :
                /\ s_store[t].client = c
                /\ ~s_store[t].under_dispute
                /\ ~a_store[t].under_dispute


\* The sum of the amounts of the stored transactions ids.
RECURSIVE SumAmounts(_, _)
SumAmounts(store, ids) ==
    IF ids = {} THEN 0
    ELSE LET t == CHOOSE x \in ids : TRUE
         IN  store[t].amount + SumAmounts(store, ids \ {t})

\* The stored transactions of client that are under dispute and have not been
\* charged back.
OpenDisputes(store, charged, client) ==
    {t \in DOMAIN store : store[t].client = client /\ store[t].under_dispute /\ t \notin charged}

\* Every account holds the sum of its client's open disputes.
HeldConserved(accounts, store, charged) ==
    \A c \in DOMAIN accounts :
        accounts[c].held = SumAmounts(store, OpenDisputes(store, charged, c))

\* C37. Held-funds conservation: in every reachable state of both engines and
\* for every client c, held(c) is the sum of the amounts of c's stored
\* transactions that are under dispute and have not been charged back.
C37_HeldConservation ==
    /\ HeldConserved(s_accounts, s_store, s_charged)
    /\ HeldConserved(a_accounts, a_store, a_charged)


\* What a call adds to the total of its record's client when total is the sum
\* of the accepted deposits less the accepted withdrawals less the amounts
\* charged back: the amount of an accepted deposit, minus the amount of an
\* accepted withdrawal, minus the stored amount of a successful chargeback, and
\* nothing otherwise.
TotalDelta(record, result, store) ==
    IF result # Ok THEN 0
    ELSE IF record.tx_type = Deposit THEN record.amount[1]
    ELSE IF record.tx_type = Withdrawal THEN -record.amount[1]
    ELSE IF record.tx_type = Chargeback THEN -store[record.tx].amount
    ELSE 0

\* The call keeps every total equal to that sum, and a chargeback succeeds only
\* for a transaction that was not charged back before.
TotalConserved(record, result, store, charged, accounts, new_accounts) ==
    /\ \A c \in Clients :
          AccountOf(new_accounts, c).total =
              AccountOf(accounts, c).total
                  + (IF c = record.client THEN TotalDelta(record, result, store) ELSE 0)
    /\ (record.tx_type = Chargeback /\ result = Ok) => record.tx \notin charged

\* C38. Total-funds conservation: in every reachable state of both engines and
\* for every client c, total(c) is the sum of the amounts of c's accepted
\* deposits, less the sum of the amounts of c's accepted withdrawals, less the
\* amounts removed by c's successful chargebacks, and a transaction's amount is
\* charged back at most once. All totals start at zero, so the sums are kept
\* when every call changes the totals by what it adds to the sums.
C38_TotalConservation ==
    [][ProcessStep =>
          /\ TotalConserved(s_last'.record[1], s_last'.result, s_store, s_charged,
                            s_accounts, s_accounts')
          /\ TotalConserved(a_last'.record[1], a_last'.result, a_store, a_charged,
                            a_accounts, a_accounts')]_vars


\* The clients of which a chargeback has succeeded.
ChargedClients(store, charged) == {store[t].client : t \in charged \cap DOMAIN store}

\* The accounts that are locked are those of the clients of which a chargeback
\* has succeeded.
LockedIffCharged(accounts, store, charged) ==
    \A c \in Clients : AccountOf(accounts, c).locked <=> c \in ChargedClients(store, charged)

\* A call that leaves an account locked that was not has returned Ok for a
\* chargeback of that account's client.
LockedByChargeback(record, result, accounts, new_accounts) ==
    \A c \in Clients :
        (AccountOf(new_accounts, c).locked /\ ~AccountOf(accounts, c).locked) =>
            (record.tx_type = Chargeback /\ result = Ok /\ record.client = c)

\* C40. An account is locked only by a chargeback: in every reachable state of
\* both engines an account's locked flag is true if and only if a chargeback of
\* that client has succeeded; deposits, withdrawals, disputes, resolves and
\* rejected chargebacks never set it.
C40_LockedIffChargeback ==
    /\ [](LockedIffCharged(s_accounts, s_store, s_charged)
            /\ LockedIffCharged(a_accounts, a_store, a_charged))
    /\ [][ProcessStep =>
            /\ LockedByChargeback(s_last'.record[1], s_last'.result, s_accounts, s_accounts')
            /\ LockedByChargeback(a_last'.record[1], a_last'.result, a_accounts, a_accounts')]_vars

\* One client's account is locked in both engines after its chargeback, and
\* both engines have since accepted a deposit of another client, whose account
\* is not locked.
C40_Witness ==
    /\ s_last.record # None
    /\ s_last.record[1].tx_type = Deposit
    /\ s_last.result = Ok
    /\ a_last.result = Ok
    /\ ~s_accounts[s_last.record[1].client].locked
    /\ ~a_accounts[s_last.record[1].client].locked
    /\ \E c \in DOMAIN s_accounts \cap DOMAIN a_accounts :
          /\ s_accounts[c].locked
          /\ a_accounts[c].locked
          /\ c \in ChargedClients(s_store, s_charged)
          /\ c \in ChargedClients(a_store, a_charged)


\* Every thread's call has returned.
AllReturned == \A k \in DOMAIN tasks : tasks[k].status = "Finished"

\* The threads whose call took effect.
Effective == {k \in DOMAIN tasks : tasks[k].results = <<Ok>>}

\* The amount of transaction 0 has been moved or removed at most once: held is
\* between nothing and the amount, and total between nothing and the amount.
MovedAtMostOnce ==
    /\ a_accounts[1].held \in 0..a_store[0].amount
    /\ a_accounts[1].total \in 0..a_store[0].amount
    /\ a_accounts[1].available \in 0..a_store[0].amount

\* C39. The shared concurrent engine is safe for concurrent dispute-lifecycle
\* calls on one transaction: when threads concurrently process resolve and/or
\* chargeback records of the same disputed transaction, or dispute records of
\* the same undisputed transaction, the amount is moved or removed at most once:
\* exactly one call takes effect and every other is rejected with the
\* dispute-state error.
C39_ConcurrentLifecycle ==
    /\ MovedAtMostOnce
    /\ AllReturned =>
          /\ Cardinality(Effective) = 1
          /\ \A k \in DOMAIN tasks \ Effective :
                \E e \in DisputeStateErrors : tasks[k].results = <<e>>

====
